---- MODULE Spec2Model ----
(***************************************************************************)
(* Mixed-precision FFT design-space exploration: the structured genome,    *)
(* its operators, the low-bit floating-point codec and the concurrent,     *)
(* cached evaluation pipeline.                                             *)
(*                                                                         *)
(* Genomes, populations and result rows are 0-based functions, as the      *)
(* Python lists and numpy arrays they model.  Real numbers are exact       *)
(* rationals <<n, d>> with d > 0 in lowest terms.                          *)
(***************************************************************************)
EXTENDS Integers, Sequences, FiniteSets, TLC

(***************************************************************************)
(* Bounds of the model.                                                    *)
(***************************************************************************)
\* Number of genomes in one evaluated population (len(X)).
PopSize == 2
\* Number of population evaluations in one run.
MaxGen == 2
\* History counters of collaborator invocations stop counting here.
CallCap == 2

(***************************************************************************)
(* Program constants (globalVariablesMixedFFT).                            *)
(***************************************************************************)
SOLUTION_THREADS == 4
WEIGHT_POWER == 1
WEIGHT_AREA == 1
WEIGHT_PERFORMANCE == 1
MAX_POWER_W == 3
MAX_AREA_LUTS == 10000
MIN_SQNR_DB == 20
ENABLE_RESULT_CACHE == TRUE
\* The worst-case values substituted when the simulation fails.
SENTINEL_SQNR == -100
SENTINEL_MAE == 1000000

VARIABLES
    \* ---- evaluation pipeline ----
    fft_size,       \* MixedPrecisionFFTProblem.fft_size
    CURRENT_GEN,    \* process-wide generation counter
    RESULT_CACHE,   \* dict: chromosome hash -> results
    evalPc,         \* position of the thread running _evaluate
    X,              \* the population being evaluated
    F,              \* objective rows, None (<<>>) until set
    G,              \* constraint rows
    out,            \* the out dict of the last _evaluate call
    futures,        \* one record per submitted evaluate_solution task
    completed,      \* finished futures the as_completed loop has yet to file, in completion order
    synthCalls,     \* history: synthesis invocations per chromosome hash
    simCalls,       \* history: simulation invocations per chromosome hash
    toolFailed,     \* history: hashes whose evaluation met a failure
    \* ---- structure model and decoding ----
    gen_pc,         \* "new", "built", "decoded" or "raised"
    gen_fft_size,   \* the fft_size argument of the generator's constructor
    generator,      \* the constructed generator's fields, None before
    dec_chromosome, \* the chromosome handed to chromosome_to_config
    config,         \* the configuration chromosome_to_config returned
    length_reports, \* the chromosome lengths reported so far, by reporter
    \* ---- precision codec ----
    codec_pc,       \* "code", "value", "encoded" or "raised"
    codec_fmt,      \* 8 or 4: the format exercised
    codec_code,     \* the code handed to the decoder, -1 if none was
    codec_val,      \* the float handed to the encoder, None before
    codec_out,      \* what the encoder returned, None before
    \* ---- genome operators ----
    op_name,        \* the operator exercised
    op_fft_size,    \* the fft_size the operator was constructed with
    op_X,           \* the operator's input array
    op_n,           \* the n_samples argument of the initial sampling
    op_pc,          \* "ready", "returned" or "raised"
    op_draws,       \* history: what the operator drew, None before
    op_Y,           \* the operator's output array, None before
    op_rate,        \* history: the adaptive_rate BlockwiseMutation computed
    op_gen,         \* history: population evaluations performed when it ran
    globals_CURRENT_GEN, \* the name CURRENT_GEN of module globalVariablesMixedFFT
    \* ---- emitted top-level controller ----
    top_params,     \* the parameters MAX_N and ADDR_WIDTH of the emitted top module
    top_regs,       \* the registers of the emitted top module
    top_hist        \* history: samples presented and fft_start pulses since reset

pipeVars == <<fft_size, CURRENT_GEN, RESULT_CACHE, evalPc, X, F, G, out,
              futures, completed, synthCalls, simCalls, toolFailed>>

structVars == <<gen_pc, gen_fft_size, generator, dec_chromosome, config,
                length_reports>>

codecVars == <<codec_pc, codec_fmt, codec_code, codec_val, codec_out>>

opsVars == <<op_name, op_fft_size, op_X, op_n, op_pc, op_draws, op_Y, op_rate,
             op_gen, globals_CURRENT_GEN>>

topVars == <<top_params, top_regs, top_hist>>

nonPipeVars == <<structVars, codecVars, opsVars, topVars>>

vars == <<pipeVars, structVars, codecVars, opsVars, topVars>>

None == <<>>

\* The parts of the state a specification does not exercise stay as they
\* are after construction.
StructIdle ==
    /\ gen_pc = "new"
    /\ gen_fft_size = 2
    /\ generator = None
    /\ dec_chromosome = <<>>
    /\ config = None
    /\ length_reports = <<>>

CodecIdle ==
    /\ codec_pc = "value"
    /\ codec_fmt = 8
    /\ codec_code = -1
    /\ codec_val = None
    /\ codec_out = None

PipelineIdle ==
    /\ fft_size = 2
    /\ CURRENT_GEN = 0
    /\ RESULT_CACHE = [k \in {} |-> None]
    /\ evalPc = "idle"
    /\ X = <<>>
    /\ F = <<>>
    /\ G = <<>>
    /\ out = [set |-> FALSE, F |-> <<>>, G |-> <<>>]
    /\ futures = <<>>
    /\ completed = <<>>
    /\ synthCalls = [k \in {} |-> 0]
    /\ simCalls = [k \in {} |-> 0]
    /\ toolFailed = {}

OpsIdle ==
    /\ op_name = "none"
    /\ op_fft_size = 2
    /\ op_X = None
    /\ op_n = 0
    /\ op_pc = "ready"
    /\ op_draws = None
    /\ op_Y = None
    /\ op_rate = None
    /\ op_gen = 0
    /\ globals_CURRENT_GEN = 0

\* The states of the emitted top-level controller.
MEM_IDLE == 0
MEM_WRITE == 1
MEM_PROCESS == 2
MEM_READ == 3

\* The registers after reset (the if (!rst) branch of the sequential
\* block).  data_out carries sample data only and is left out.
reset_registers ==
    [mem_state |-> MEM_IDLE, input_count |-> 0, output_count |-> 0,
     wr_en |-> 0, wr_addr |-> 0, rd_addr |-> 0, fft_ready |-> 1,
     data_out_valid |-> 0, fft_start |-> 0, fft_start_issued |-> 0,
     read_bank_sel |-> 0, ext_reading |-> 0]

\* Nothing presented, no start pulse seen.
no_history == [presented |-> 0, starts |-> 0]

TopIdle ==
    /\ top_params = [MAX_N |-> 2, ADDR_WIDTH |-> 1]
    /\ top_regs = reset_registers
    /\ top_hist = no_history

(***************************************************************************)
(* Exact rational arithmetic.                                              *)
(***************************************************************************)
Abs(n) == IF n < 0 THEN -n ELSE n

\* Euclid's algorithm, as a function so that its arguments are values.
gcd[a \in Nat, b \in Nat] == IF b = 0 THEN a ELSE gcd[b, a % b]

GCD(a, b) == gcd[a, b]

Rat(n, d) ==
    LET s == IF d < 0 THEN -1 ELSE 1
        g == GCD(Abs(n), Abs(d))
    IN  <<(s * n) \div g, (s * d) \div g>>

RInt(n) == <<n, 1>>
RAdd(a, b) == Rat(a[1] * b[2] + b[1] * a[2], a[2] * b[2])
RSub(a, b) == Rat(a[1] * b[2] - b[1] * a[2], a[2] * b[2])
RMul(a, b) == Rat(a[1] * b[1], a[2] * b[2])
RDiv(a, b) == Rat(a[1] * b[2], a[2] * b[1])
RLt(a, b) == a[1] * b[2] < b[1] * a[2]
RLe(a, b) == a[1] * b[2] <= b[1] * a[2]
RNeg(a) == <<-a[1], a[2]>>
RAbs(a) == <<Abs(a[1]), a[2]>>

RECURSIVE Pow2(_)
Pow2(e) == IF e = 0 THEN 1 ELSE 2 * Pow2(e - 1)

\* 2^e as a rational, e any integer.
RPow2(e) == IF e >= 0 THEN <<Pow2(e), 1>> ELSE <<1, Pow2(-e)>>

(***************************************************************************)
(* StructureModel: FFTTemplateGenerator.__init__ and get_chromosome_length *)
(***************************************************************************)
\* int(math.log2(n)) for n >= 1.
RECURSIVE FloorLog2(_)
FloorLog2(n) == IF n < 2 THEN 0 ELSE 1 + FloorLog2(n \div 2)

num_stages(size) == FloorLog2(size)
butterflies_per_stage(size) == size \div 2
total_butterflies(size) == butterflies_per_stage(size) * num_stages(size)
get_chromosome_length(size) == 2 * total_butterflies(size)

\* All binary chromosomes of length n.
Chromosomes(n) == [0 .. n - 1 -> {0, 1}]

(***************************************************************************)
(* Evaluation pipeline (MixedPrecisionFFTProblem).                         *)
(***************************************************************************)
\* str(gene): the decimal digits of a small non-negative integer.
StrOf(n) ==
    LET digit(k) == CASE k = 0 -> "0" [] k = 1 -> "1" [] k = 2 -> "2"
                      [] k = 3 -> "3" [] k = 4 -> "4" [] k = 5 -> "5"
                      [] k = 6 -> "6" [] k = 7 -> "7" [] k = 8 -> "8"
                      [] OTHER -> "9"
    IN  IF n < 10 THEN <<digit(n)>> ELSE <<digit(n \div 10), digit(n % 10)>>

\* ''.join(map(str, chromosome)): the characters the digest is taken of.
RECURSIVE JoinStr(_, _)
JoinStr(chromosome, i) ==
    IF i \notin DOMAIN chromosome THEN <<>>
    ELSE StrOf(chromosome[i]) \o JoinStr(chromosome, i + 1)

\* A key that leaves the first gene out.
hash_chromosome_without_first(chromosome) == JoinStr(chromosome, 1)

\* hashlib.md5 is taken as injective on the joined strings.
hash_chromosome(chromosome) == JoinStr(chromosome, 0)

\* The collaborators' answers for a design, as deterministic stubs of the
\* chromosome: the all-low design draws 0.5 W and 1000 LUTs at 25 dB SQNR.
GeneValue(chromosome) ==
    LET RECURSIVE val(_)
        val(i) == IF i \notin DOMAIN chromosome THEN 0
                  ELSE chromosome[i] + 2 * val(i + 1)
    IN  val(0)

ToolPower(chromosome) == Rat(2 + GeneValue(chromosome), 4)
ToolArea(chromosome) == RInt(1000 + 500 * GeneValue(chromosome))
ToolSqnr(chromosome) == RInt(25 + 5 * GeneValue(chromosome))
ToolMae(chromosome) == Rat(1, 100)

IdealResults(chromosome) ==
    [power |-> ToolPower(chromosome), area |-> ToolArea(chromosome),
     sqnr |-> ToolSqnr(chromosome), mae |-> ToolMae(chromosome)]

SynthSentinel == <<RInt(MAX_POWER_W * 2), RInt(MAX_AREA_LUTS * 2)>>
SimSentinel == <<RInt(SENTINEL_SQNR), RInt(SENTINEL_MAE)>>

\* An objective computation that leaves out the + 1 of 1/(SQNR + 1).
compute_objectives_without_offset(results) ==
    <<<<RMul(results.power, RInt(WEIGHT_POWER)),
        RMul(results.area, RInt(WEIGHT_AREA)),
        RMul(RAdd(RDiv(RInt(1), results.sqnr), results.mae), RInt(WEIGHT_PERFORMANCE))>>,
      <<RSub(results.power, RInt(MAX_POWER_W)),
        RSub(results.area, RInt(MAX_AREA_LUTS)),
        RSub(RInt(MIN_SQNR_DB), results.sqnr)>>>>

\* _compute_objectives_and_constraints
compute_objectives_and_constraints(results) ==
    LET performance_error ==
            RAdd(RDiv(RInt(1), RAdd(results.sqnr, RInt(1))), results.mae)
        objectives == <<RMul(results.power, RInt(WEIGHT_POWER)),
                        RMul(results.area, RInt(WEIGHT_AREA)),
                        RMul(performance_error, RInt(WEIGHT_PERFORMANCE))>>
        constraints == <<RSub(results.power, RInt(MAX_POWER_W)),
                         RSub(results.area, RInt(MAX_AREA_LUTS)),
                         RSub(RInt(MIN_SQNR_DB), results.sqnr)>>
    IN  <<objectives, constraints>>

\* The design sizes the pipeline is run with in this model.
PipelineSizes == {2}

\* The chromosomes populations are drawn from: all-low and all-high.
PipelineChromosomes ==
    {[g \in 0 .. get_chromosome_length(fft_size) - 1 |-> b] : b \in {0, 1}}

PipelineKeys ==
    {hash_chromosome(c) : c \in Chromosomes(get_chromosome_length(fft_size))}

\* A loop that lets a task's exception escape, as future.result() does when
\* it is not wrapped in try/except.
on_task_exception_unhandled ==
    [propagate |-> TRUE, F |-> None, G |-> None]

\* The rows _evaluate assigns when a task raised (lines 94-98): whether the
\* exception propagates out of _evaluate, and the rows written otherwise.
on_task_exception ==
    [propagate |-> FALSE,
     F |-> <<RInt(MAX_POWER_W * 2), RInt(MAX_AREA_LUTS * 2), RInt(1000000)>>,
     G |-> <<RInt(MAX_POWER_W), RInt(MAX_AREA_LUTS), RInt(-MIN_SQNR_DB)>>]

\* Rows filed in completion order, as a loop appending to F would.
future_index_by_completion(i) ==
    Cardinality({j \in DOMAIN futures : futures[j].pc \in {"done", "raised"}})
        - Len(completed)

\* futures[future]: the population index a completed future is filed under.
future_index(i) == i

\* The states in which a task occupies a worker thread of the executor.
RunningPcs == {"synthesis", "synthesis_hung", "simulation", "simulation_hung"}

NewFuture(chromosome) ==
    [pc |-> "pending", chromosome |-> chromosome, design_gen |-> -1,
     power |-> None, area |-> None, sqnr |-> None, mae |-> None]

ResultsOf(t) == [power |-> t.power, area |-> t.area, sqnr |-> t.sqnr, mae |-> t.mae]

\* A history counter that stops counting at CallCap.
Bump(n) == IF n < CallCap THEN n + 1 ELSE n

\* An _evaluate that leaves the counter as it is.
generation_not_counted(gen) == gen

\* CURRENT_GEN += 1 (line 76)
generation_after(gen) == gen + 1

PipelineStart ==
    /\ fft_size \in PipelineSizes
    /\ CURRENT_GEN = 0
    /\ RESULT_CACHE = [k \in {} |-> None]
    /\ evalPc = "idle"
    /\ X = <<>>
    /\ F = <<>>
    /\ G = <<>>
    /\ out = [set |-> FALSE, F |-> <<>>, G |-> <<>>]
    /\ futures = <<>>
    /\ completed = <<>>
    /\ synthCalls = [k \in PipelineKeys |-> 0]
    /\ simCalls = [k \in PipelineKeys |-> 0]
    /\ toolFailed = {}

InitPipeline == PipelineStart /\ StructIdle /\ CodecIdle /\ OpsIdle /\ TopIdle

\* _evaluate, lines 63-86: bump the generation counter, allocate F and G and
\* submit one evaluate_solution task per population row.
EvaluateBegin ==
    /\ evalPc = "idle"
    /\ CURRENT_GEN < MaxGen
    /\ \E Xnew \in [0 .. PopSize - 1 -> PipelineChromosomes] :
        /\ X' = Xnew
        /\ futures' = [i \in 0 .. PopSize - 1 |-> NewFuture(Xnew[i])]
    /\ CURRENT_GEN' = generation_after(CURRENT_GEN)
    /\ F' = [i \in 0 .. PopSize - 1 |-> None]
    /\ G' = [i \in 0 .. PopSize - 1 |-> None]
    /\ out' = [set |-> FALSE, F |-> <<>>, G |-> <<>>]
    /\ completed' = <<>>
    /\ evalPc' = "running"
    /\ UNCHANGED nonPipeVars
    /\ UNCHANGED <<fft_size, RESULT_CACHE, synthCalls, simCalls, toolFailed>>

\* The task's future completes with a result: it joins the completion order
\* as_completed yields futures in.
Finish(i, pc, results) ==
    /\ futures' = [futures EXCEPT ![i] =
            [@ EXCEPT !.pc = pc,
                      !.power = results.power, !.area = results.area,
                      !.sqnr = results.sqnr, !.mae = results.mae]]
    /\ completed' = Append(completed, i)

NoResults == [power |-> None, area |-> None, sqnr |-> None, mae |-> None]

\* evaluate_solution, lines 113-131: a worker thread takes the task and looks
\* the chromosome up in the cache.  On a hit it returns the cached result's
\* vectors; on a miss it names the design after the current generation and
\* renders it, which may raise while writing the file.
TaskStart(i) ==
    /\ evalPc = "running"
    /\ futures[i].pc = "pending"
    /\ Cardinality({j \in DOMAIN futures : futures[j].pc \in RunningPcs}) < SOLUTION_THREADS
    /\ LET chrom_hash == hash_chromosome(futures[i].chromosome)
       IN  IF ENABLE_RESULT_CACHE /\ chrom_hash \in DOMAIN RESULT_CACHE
           THEN /\ Finish(i, "done", RESULT_CACHE[chrom_hash])
                /\ UNCHANGED toolFailed
           ELSE \E rendered \in BOOLEAN :
                    IF rendered
                    THEN /\ futures' = [futures EXCEPT ![i] =
                                [@ EXCEPT !.pc = "synthesis", !.design_gen = CURRENT_GEN]]
                         /\ UNCHANGED <<completed, toolFailed>>
                    ELSE /\ Finish(i, "raised", NoResults)
                         /\ toolFailed' = toolFailed \cup {chrom_hash}
    /\ UNCHANGED nonPipeVars
    /\ UNCHANGED <<fft_size, CURRENT_GEN, RESULT_CACHE, evalPc, X, F, G, out,
                   synthCalls, simCalls>>

\* What one synthesis invocation can come to.
SynthOutcomes ==
    {"ok", "no_power_row", "no_lut_row", "nonzero_exit", "invocation_error", "hang"}

\* _run_vivado_synthesis / _parse_vivado_metrics: (power, area) for an
\* invocation that ended with the given outcome.  The parser starts from the
\* two worst-case values and replaces each one whose row it finds in the
\* report.
run_vivado_synthesis(chromosome, outcome) ==
    CASE outcome = "ok" -> <<ToolPower(chromosome), ToolArea(chromosome)>>
      [] outcome = "no_power_row" -> <<SynthSentinel[1], ToolArea(chromosome)>>
      [] outcome = "no_lut_row" -> <<ToolPower(chromosome), SynthSentinel[2]>>
      [] OTHER -> SynthSentinel

\* _run_vivado_synthesis, lines 187-205: invoke the synthesis tool.
RunVivadoSynthesis(i) ==
    /\ evalPc = "running"
    /\ futures[i].pc = "synthesis"
    /\ LET chrom_hash == hash_chromosome(futures[i].chromosome)
       IN  /\ synthCalls' = [synthCalls EXCEPT ![chrom_hash] = Bump(@)]
           /\ \E outcome \in SynthOutcomes :
                IF outcome = "hang"
                THEN /\ futures' = [futures EXCEPT ![i].pc = "synthesis_hung"]
                     /\ UNCHANGED toolFailed
                ELSE LET pa == run_vivado_synthesis(futures[i].chromosome, outcome)
                     IN  /\ futures' = [futures EXCEPT ![i] =
                                [@ EXCEPT !.pc = "simulation",
                                          !.power = pa[1], !.area = pa[2]]]
                         /\ toolFailed' = IF outcome = "ok" THEN toolFailed
                                          ELSE toolFailed \cup {chrom_hash}
    /\ UNCHANGED nonPipeVars
    /\ UNCHANGED <<fft_size, CURRENT_GEN, RESULT_CACHE, evalPc, X, F, G, out,
                   completed, simCalls>>

\* _run_vivado_synthesis, lines 193 and 207-209: subprocess.run(timeout=600)
\* kills a synthesis that does not finish and raises TimeoutExpired.
SynthesisTimeout(i) ==
    /\ evalPc = "running"
    /\ futures[i].pc = "synthesis_hung"
    /\ futures' = [futures EXCEPT ![i] =
            [@ EXCEPT !.pc = "simulation",
                      !.power = SynthSentinel[1], !.area = SynthSentinel[2]]]
    /\ toolFailed' = toolFailed \cup {hash_chromosome(futures[i].chromosome)}
    /\ UNCHANGED nonPipeVars
    /\ UNCHANGED <<fft_size, CURRENT_GEN, RESULT_CACHE, evalPc, X, F, G, out,
                   completed, synthCalls, simCalls>>

\* What one simulation invocation can come to.
SimOutcomes == {"ok", "failed", "hang"}

\* _run_performance_evaluation / evaluate_design: (sqnr, mae) for a simulation
\* that ended with the given outcome.
run_performance_evaluation(chromosome, outcome) ==
    IF outcome = "ok" THEN <<ToolSqnr(chromosome), ToolMae(chromosome)>>
    ELSE SimSentinel

\* evaluate_solution, lines 137-162, with run_verilog_simulation, lines
\* 114-136: compile and simulate, store the results in the cache, write the
\* per-solution result file (which may raise) and return the vectors.
\* Neither subprocess.run call of the simulation is given a timeout, so a
\* simulator that does not finish leaves the task waiting.
RunPerformanceEvaluation(i) ==
    /\ evalPc = "running"
    /\ futures[i].pc = "simulation"
    /\ LET chrom_hash == hash_chromosome(futures[i].chromosome)
       IN  /\ simCalls' = [simCalls EXCEPT ![chrom_hash] = Bump(@)]
           /\ \E outcome \in SimOutcomes :
                IF outcome = "hang"
                THEN /\ futures' = [futures EXCEPT ![i] =
                            [@ EXCEPT !.pc = "simulation_hung",
                                      !.power = None, !.area = None]]
                     /\ UNCHANGED <<RESULT_CACHE, completed, toolFailed>>
                ELSE LET sm == run_performance_evaluation(futures[i].chromosome, outcome)
                         results == [power |-> futures[i].power, area |-> futures[i].area,
                                     sqnr |-> sm[1], mae |-> sm[2]]
                     IN  /\ RESULT_CACHE' = (chrom_hash :> results) @@ RESULT_CACHE
                         /\ \E saved \in BOOLEAN :
                              IF saved
                              THEN /\ Finish(i, "done", results)
                                   /\ toolFailed' = IF outcome = "ok" THEN toolFailed
                                                    ELSE toolFailed \cup {chrom_hash}
                              ELSE /\ Finish(i, "raised", NoResults)
                                   /\ toolFailed' = toolFailed \cup {chrom_hash}
    /\ UNCHANGED nonPipeVars
    /\ UNCHANGED <<fft_size, CURRENT_GEN, evalPc, X, F, G, out, synthCalls>>

\* _evaluate, lines 88-98: the as_completed loop files the next finished
\* future, in completion order.
Collect(i) ==
    /\ evalPc = "running"
    /\ Len(completed) > 0
    /\ completed[1] = i
    /\ LET idx == future_index(i)
       IN  IF futures[i].pc = "done"
           THEN LET ret == compute_objectives_and_constraints(ResultsOf(futures[i]))
                IN  /\ F' = [F EXCEPT ![idx] = ret[1]]
                    /\ G' = [G EXCEPT ![idx] = ret[2]]
                    /\ UNCHANGED evalPc
           ELSE IF on_task_exception.propagate
                THEN /\ evalPc' = "raised"
                     /\ UNCHANGED <<F, G>>
                ELSE /\ F' = [F EXCEPT ![idx] = on_task_exception.F]
                     /\ G' = [G EXCEPT ![idx] = on_task_exception.G]
                     /\ UNCHANGED evalPc
    /\ completed' = Tail(completed)
    /\ UNCHANGED nonPipeVars
    /\ UNCHANGED <<fft_size, CURRENT_GEN, RESULT_CACHE, X, out, futures,
                   synthCalls, simCalls, toolFailed>>

\* _evaluate, lines 100-103: every future finished and was filed; hand F and
\* G back.
EvaluateReturn ==
    /\ evalPc = "running"
    /\ completed = <<>>
    /\ \A i \in DOMAIN futures : futures[i].pc \in {"done", "raised"}
    /\ out' = [set |-> TRUE, F |-> F, G |-> G]
    /\ evalPc' = "idle"
    /\ UNCHANGED nonPipeVars
    /\ UNCHANGED <<fft_size, CURRENT_GEN, RESULT_CACHE, X, F, G, futures,
                   completed, synthCalls, simCalls, toolFailed>>

TaskStep(i) ==
    \/ TaskStart(i)
    \/ RunVivadoSynthesis(i)
    \/ SynthesisTimeout(i)
    \/ RunPerformanceEvaluation(i)

NextPipeline ==
    \/ EvaluateBegin
    \/ \E i \in DOMAIN futures : TaskStep(i)
    \/ \E i \in DOMAIN futures : Collect(i)
    \/ EvaluateReturn

SpecPipeline == InitPipeline /\ [][NextPipeline]_vars

\* The scheduling the thread pool and the operating system provide: while a
\* worker thread or the thread running _evaluate can take a step, one of
\* them does.  The state graph has no cycles, so this is as strong here as
\* fairness for each thread by itself.
FairPipeline == SpecPipeline /\ WF_vars(NextPipeline)

(***************************************************************************)
(* Claims about the evaluation pipeline.                                   *)
(***************************************************************************)
Rows == 0 .. PopSize - 1

\* The results an evaluation of the chromosome can yield: each collaborator
\* either answered for this design or its sentinel was substituted.
PossibleResults(chromosome) ==
    {[power |-> pa[1], area |-> pa[2], sqnr |-> sm[1], mae |-> sm[2]] :
        pa \in {run_vivado_synthesis(chromosome, o) : o \in SynthOutcomes},
        sm \in {<<ToolSqnr(chromosome), ToolMae(chromosome)>>, SimSentinel}}

Infeasible(g_vals) == \E j \in 1 .. 3 : RLt(RInt(0), g_vals[j])

\* C1: within one run the synthesis and the simulation collaborator are
\* invoked at most once per distinct genome, under every interleaving of the
\* evaluation tasks.
C1_AtMostOncePerGenome ==
    \A k \in PipelineKeys : synthCalls[k] <= 1 /\ simCalls[k] <= 1

\* C2: after _evaluate returns, row k of F and of G holds the vectors
\* produced by evaluating X[k], whatever the order the tasks completed in,
\* and no row is left unset.
C2_IndexStable ==
    out.set =>
        \A k \in Rows :
            /\ out.F[k] # None /\ out.G[k] # None
            /\ futures[k].chromosome = X[k]
            /\ IF futures[k].pc = "done"
               THEN /\ <<out.F[k], out.G[k]>> =
                          compute_objectives_and_constraints(ResultsOf(futures[k]))
                    /\ ResultsOf(futures[k]) \in PossibleResults(X[k])
               ELSE /\ out.F[k] = on_task_exception.F
                    /\ out.G[k] = on_task_exception.G

\* C2 witness: an evaluation of two different genomes returned, each row
\* holding its own genome's vectors, which differ.
C2_Witness ==
    /\ out.set
    /\ X[0] # X[1]
    /\ futures[0].pc = "done" /\ futures[1].pc = "done"
    /\ out.F[0] = compute_objectives_and_constraints(IdealResults(X[0]))[1]
    /\ out.F[1] = compute_objectives_and_constraints(IdealResults(X[1]))[1]
    /\ out.F[0] # out.F[1]

SentinelObjective ==
    <<RMul(RInt(2 * MAX_POWER_W), RInt(WEIGHT_POWER)),
      RMul(RInt(2 * MAX_AREA_LUTS), RInt(WEIGHT_AREA)),
      RMul(RInt(SENTINEL_MAE), RInt(WEIGHT_PERFORMANCE))>>

C4_EvaluationReturns == (evalPc = "running") ~> (evalPc = "idle")

(***************************************************************************)
(* StructureModel and decoding (FFTTemplateGeneratorPerButterfly).         *)
(***************************************************************************)
\* The constructor is tried with the sizes -1 .. MaxSize.
MaxSize == 8
\* Chromosomes handed to the decoder have 0 .. MaxChromLen genes.
MaxChromLen == 8

StructSizes == -1 .. MaxSize

\* len(chromosome)
ChromLen(c) == Cardinality(DOMAIN c)

StructChromosomes == UNION {Chromosomes(n) : n \in 0 .. MaxChromLen}

\* __init__, lines 24-27.  math.log2 raises ValueError for fft_size <= 0;
\* nothing else is checked.
new_generator(size) ==
    IF size <= 0
    THEN [error |-> "ValueError", fft_size |-> size, num_stages |-> 0,
          butterflies_per_stage |-> 0, total_butterflies |-> 0]
    ELSE [error |-> "", fft_size |-> size, num_stages |-> num_stages(size),
          butterflies_per_stage |-> butterflies_per_stage(size),
          total_butterflies |-> total_butterflies(size)]

\* A decoder that fills the genes a short chromosome lacks with the high
\* precision.
gene_or_high(c, idx) == IF idx < ChromLen(c) THEN c[idx] ELSE 1

\* chromosome[idx] if idx < len(chromosome) else 0 (lines 75-76)
gene_or_default(c, idx) == IF idx < ChromLen(c) THEN c[idx] ELSE 0

\* A gene index counted within the stage instead of across stages.
chrom_idx_within_stage(bf_in_stage, butterfly_global_idx) == bf_in_stage * 2

\* chrom_idx = butterfly_global_idx * 2 (line 72)
chrom_idx_of(bf_in_stage, butterfly_global_idx) == butterfly_global_idx * 2

\* The inner loop of chromosome_to_config (lines 71-86): the butterflies of
\* one stage from bf_in_stage on, butterfly_global_idx counting across stages.
RECURSIVE decode_butterflies(_, _, _, _)
decode_butterflies(gen, c, bf_in_stage, butterfly_global_idx) ==
    IF bf_in_stage >= gen.butterflies_per_stage THEN <<>>
    ELSE LET chrom_idx == chrom_idx_of(bf_in_stage, butterfly_global_idx)
             mult_prec == gene_or_default(c, chrom_idx)
             add_prec == gene_or_default(c, chrom_idx + 1)
         IN  <<[butterfly_id |-> bf_in_stage,
                global_butterfly_id |-> butterfly_global_idx,
                mult_precision |-> mult_prec,
                add_precision |-> add_prec]>>
             \o decode_butterflies(gen, c, bf_in_stage + 1, butterfly_global_idx + 1)

\* The outer loop of chromosome_to_config (lines 64-88).
RECURSIVE decode_stages(_, _, _, _)
decode_stages(gen, c, stage, butterfly_global_idx) ==
    IF stage >= gen.num_stages THEN <<>>
    ELSE LET butterflies == decode_butterflies(gen, c, 0, butterfly_global_idx)
         IN  <<[stage_num |-> stage, butterflies |-> butterflies]>>
             \o decode_stages(gen, c, stage + 1, butterfly_global_idx + Len(butterflies))

\* chromosome_to_config: the lists are sequences, in the order appended.
chromosome_to_config(gen, c) ==
    [fft_size |-> gen.fft_size,
     num_stages |-> gen.num_stages,
     butterflies_per_stage |-> gen.butterflies_per_stage,
     total_butterflies |-> gen.total_butterflies,
     stages |-> decode_stages(gen, c, 0, 0)]

InitStruct ==
    /\ gen_pc = "new"
    /\ gen_fft_size \in StructSizes
    /\ generator = None
    /\ dec_chromosome \in StructChromosomes
    /\ config = None
    /\ length_reports = <<>>
    /\ PipelineIdle /\ CodecIdle /\ OpsIdle /\ TopIdle

\* FFTTemplateGeneratorPerButterfly(fft_size)
Build ==
    /\ gen_pc = "new"
    /\ LET gen == new_generator(gen_fft_size)
       IN  IF gen.error # ""
           THEN /\ gen_pc' = "raised"
                /\ UNCHANGED generator
           ELSE /\ gen_pc' = "built"
                /\ generator' = gen
    /\ UNCHANGED <<gen_fft_size, dec_chromosome, config, length_reports>>
    /\ UNCHANGED <<pipeVars, codecVars, opsVars, topVars>>

\* generator.chromosome_to_config(chromosome)
ChromosomeToConfig ==
    /\ gen_pc = "built"
    /\ config' = chromosome_to_config(generator, dec_chromosome)
    /\ gen_pc' = "decoded"
    /\ UNCHANGED <<gen_fft_size, generator, dec_chromosome, length_reports>>
    /\ UNCHANGED <<pipeVars, codecVars, opsVars, topVars>>

NextStruct ==
    \/ Build
    \/ ChromosomeToConfig

SpecStruct == InitStruct /\ [][NextStruct]_vars

(***************************************************************************)
(* Claims about the structure model and decoding.                          *)
(***************************************************************************)
IsPowerOfTwo(n) == n >= 1 /\ Pow2(FloorLog2(n)) = n

ValidSize(n) == IsPowerOfTwo(n) /\ n >= 2 /\ n <= 1024

C6_InvalidSizeRejected ==
    (gen_pc # "new" /\ ~ValidSize(gen_fft_size)) => gen_pc = "raised"

(***************************************************************************)
(* PrecisionCodec: float_to_fp8, float_to_fp4 (twiddle_factor_gen) and     *)
(* fp8_to_float, fp4_to_float (PerformanceEvaluator).                      *)
(*                                                                         *)
(* A float is <<n, d>>: a rational in lowest terms with d > 0, negative    *)
(* zero <<0, -1>>, the infinities <<1, 0>> and <<-1, 0>>, NaN <<0, 0>>.    *)
(***************************************************************************)
\* Encoder inputs are +-(m / MantissaGrid) * 2^e, m in MantissaGrid ..
\* 2*MantissaGrid - 1 and e in -MaxExp .. MaxExp.
MaxExp == 9
MantissaGrid == 16

PosZero == <<0, 1>>
NegZero == <<0, -1>>
Inf == <<1, 0>>
NaN == <<0, 0>>

IsFinite(v) == v[2] # 0
\* val == 0: true of both zeros.
FIsZero(v) == v[1] = 0 /\ v[2] # 0
\* val < 0: false of negative zero and of NaN.
FIsNegative(v) == v[1] < 0
\* -value
FNeg(v) == IF v = PosZero THEN NegZero
           ELSE IF v = NegZero THEN PosZero
           ELSE <<-v[1], v[2]>>
\* abs(val)
FAbs(v) == <<Abs(v[1]), Abs(v[2])>>

\* math.floor(math.log2(val)) for a finite val > 0.
RECURSIVE floor_log2(_)
floor_log2(v) ==
    IF RLe(RInt(2), v) THEN 1 + floor_log2(RDiv(v, RInt(2)))
    ELSE IF RLt(v, RInt(1)) THEN floor_log2(RMul(v, RInt(2))) - 1
    ELSE 0

\* round(x) for x >= 0: to the nearest integer, a tie to the even one.
round_half_even(v) ==
    LET q == v[1] \div v[2]
        r == v[1] % v[2]
    IN  IF 2 * r < v[2] THEN q
        ELSE IF 2 * r > v[2] THEN q + 1
        ELSE IF q % 2 = 0 THEN q ELSE q + 1

\* fp8_to_float, lines 81-103
fp8_to_float(fp8_val) ==
    IF fp8_val = 0 THEN PosZero
    ELSE LET sign == (fp8_val \div 128) % 2
             exp == (fp8_val \div 8) % 16
             mant == fp8_val % 8
         IN  IF exp = 15 THEN (IF mant = 0 THEN Inf ELSE NaN)
             ELSE LET value == IF exp = 0 THEN Rat(mant, 8)
                               ELSE RMul(RAdd(RInt(1), Rat(mant, 8)), RPow2(exp - 7))
                  IN  IF sign = 1 THEN FNeg(value) ELSE value

\* fp4_to_float, lines 60-79
fp4_to_float(fp4_val) ==
    IF fp4_val = 0 THEN PosZero
    ELSE LET sign == (fp4_val \div 8) % 2
             exp == (fp4_val \div 2) % 4
             mant == fp4_val % 2
             value == IF exp = 0 THEN Rat(mant, 2)
                      ELSE RMul(RAdd(RInt(1), Rat(mant, 2)), RPow2(exp - 1))
         IN  IF sign = 1 THEN FNeg(value) ELSE value

\* float_to_fp8, lines 3-31.  math.log2 / math.floor raise for an infinity
\* and for NaN.
float_to_fp8(val) ==
    IF FIsZero(val) THEN [error |-> "", code |-> 0]
    ELSE LET sign == IF FIsNegative(val) THEN 128 ELSE 0
             aval == FAbs(val)
         IN  IF IsFinite(aval) /\ RLt(aval, Rat(1, 100)) THEN [error |-> "", code |-> sign]
             ELSE IF ~IsFinite(aval)
                  THEN [error |-> IF aval = NaN THEN "ValueError" ELSE "OverflowError",
                        code |-> 0]
                  ELSE LET exponent_unbiased == floor_log2(aval)
                           biased == exponent_unbiased + 7
                           exponent_stored == IF biased < 0 THEN 0
                                              ELSE IF biased > 15 THEN 15 ELSE biased
                           mantissa_float == RSub(RDiv(aval, RPow2(exponent_unbiased)), RInt(1))
                           rounded == round_half_even(RMul(mantissa_float, RInt(8)))
                           mantissa_int == IF rounded = 8 THEN 0 ELSE rounded
                           exponent_final == IF rounded = 8 THEN exponent_stored + 1
                                             ELSE exponent_stored
                       IN  [error |-> "",
                            code |-> sign + (exponent_final % 16) * 8 + (mantissa_int % 8)]

\* float_to_fp4, lines 33-47.  Every comparison with NaN is false.
float_to_fp4(val) ==
    LET sign == IF FIsNegative(val) THEN 8 ELSE 0
        aval == FAbs(val)
        lt(num, den) == aval # NaN /\ (IsFinite(aval) /\ RLt(aval, Rat(num, den)))
        mag == IF lt(1, 4) THEN 0
               ELSE IF lt(3, 4) THEN 1
               ELSE IF lt(5, 4) THEN 2
               ELSE 3
    IN  [error |-> "", code |-> sign + mag]

CodecCodes(fmt) == 0 .. Pow2(fmt) - 1

EncoderInputs ==
    {RMul(Rat(s * m, MantissaGrid), RPow2(e)) :
        s \in {-1, 1}, m \in MantissaGrid .. 2 * MantissaGrid - 1, e \in -MaxExp .. MaxExp}

InitCodec ==
    /\ codec_fmt \in {4, 8}
    /\ \/ /\ codec_pc = "code"
          /\ codec_code \in CodecCodes(codec_fmt)
          /\ codec_val = None
       \/ /\ codec_pc = "value"
          /\ codec_code = -1
          /\ codec_val \in EncoderInputs
    /\ codec_out = None
    /\ PipelineIdle /\ StructIdle /\ OpsIdle /\ TopIdle

Fp8ToFloat ==
    /\ codec_pc = "code" /\ codec_fmt = 8
    /\ codec_val' = fp8_to_float(codec_code)
    /\ codec_pc' = "value"
    /\ UNCHANGED <<codec_fmt, codec_code, codec_out>>
    /\ UNCHANGED <<pipeVars, structVars, opsVars, topVars>>

Fp4ToFloat ==
    /\ codec_pc = "code" /\ codec_fmt = 4
    /\ codec_val' = fp4_to_float(codec_code)
    /\ codec_pc' = "value"
    /\ UNCHANGED <<codec_fmt, codec_code, codec_out>>
    /\ UNCHANGED <<pipeVars, structVars, opsVars, topVars>>

\* The encoder returned a code or raised.
Encoded(res) ==
    IF res.error # ""
    THEN /\ codec_pc' = "raised"
         /\ UNCHANGED codec_out
    ELSE /\ codec_pc' = "encoded"
         /\ codec_out' = res.code

FloatToFp8 ==
    /\ codec_pc = "value" /\ codec_fmt = 8
    /\ Encoded(float_to_fp8(codec_val))
    /\ UNCHANGED <<codec_fmt, codec_code, codec_val>>
    /\ UNCHANGED <<pipeVars, structVars, opsVars, topVars>>

FloatToFp4 ==
    /\ codec_pc = "value" /\ codec_fmt = 4
    /\ Encoded(float_to_fp4(codec_val))
    /\ UNCHANGED <<codec_fmt, codec_code, codec_val>>
    /\ UNCHANGED <<pipeVars, structVars, opsVars, topVars>>

NextCodec ==
    \/ Fp8ToFloat
    \/ Fp4ToFloat
    \/ FloatToFp8
    \/ FloatToFp4

SpecCodec == InitCodec /\ [][NextCodec]_vars

(***************************************************************************)
(* Claims about the precision codec.                                       *)
(***************************************************************************)
\* C7: for every 8-bit code whose exponent field is not 15 and for every
\* 4-bit code, encoding the decoded value gives the code back.
C7_RoundTrip ==
    (/\ codec_pc \in {"encoded", "raised"}
     /\ codec_code >= 0
     /\ codec_fmt = 8 => (codec_code \div 8) % 16 # 15) =>
        /\ codec_pc = "encoded"
        /\ codec_out = codec_code

\* C8: for every finite input of magnitude at least 0.01, the 8-bit encoder
\* returns a code in 0..255 whose exponent field is floor(log2|v|) + 7
\* clamped into [0, 15], or that value plus one with mantissa field 0; the
\* field never wraps to a smaller value.
C8_ExponentClamped ==
    (/\ codec_pc \in {"encoded", "raised"}
     /\ codec_fmt = 8
     /\ IsFinite(codec_val)
     /\ RLe(Rat(1, 100), FAbs(codec_val))) =>
        /\ codec_pc = "encoded"
        /\ codec_out \in 0 .. 255
        /\ LET biased == floor_log2(FAbs(codec_val)) + 7
               clamped == IF biased < 0 THEN 0 ELSE IF biased > 15 THEN 15 ELSE biased
               field == (codec_out \div 8) % 16
           IN  \/ field = clamped
               \/ field = clamped + 1 /\ codec_out % 8 = 0

(***************************************************************************)
(* GenomeOperators: TwoPointCrossover, StagewiseCrossover,                 *)
(* BlockwiseMutation, StagewiseMutation and the initial sampling.          *)
(*                                                                         *)
(* The crossovers' X and Y have shape (2, n_matings, n_var): op_X[p][k] is *)
(* parent p of mating k.  The mutations' X has shape (n, n_var): op_X[i]   *)
(* is individual i.  random.random() < rate and random.randint(a, b) are   *)
(* choices over their possible results, recorded in op_draws.              *)
(***************************************************************************)
\* The operators are run on 1 .. MaxMatings matings or individuals.
MaxMatings == 1

\* The initial sampling is asked for 0 .. MaxPop genomes.
MaxPop == 9

genes_per_butterfly == 2

GENERATIONS == 100

MUTATION_RATE == Rat(5, 100)

\* The design sizes the operators are constructed with in this model.
OperatorSizes == {2, 4, 8}

CURRENT_FFT_SIZE == 8

ENABLE_SMART_INITIALIZATION == TRUE

\* The design sizes the optimizer is run with in this model.
SamplingSizes == {4, 8, 16}

\* The design sizes the mutations are constructed with in this model.
MutationSizes == {2, 4}

\* The genomes parents are drawn from: all-low, all-high and alternating.
OperatorGenomes(n_var) ==
    {[g \in 0 .. n_var - 1 |-> b] : b \in {0, 1}}
        \cup {[g \in 0 .. n_var - 1 |-> g % 2]}

\* What op_draws holds for a random.randint call that was not reached, and
\* for one that raised ValueError.
NotDrawn == -1
ValueError == -2

\* A random.randint that excludes its upper end.
randint_half_open(a, b) == a .. b - 1

\* random.randint(a, b): an integer of [a, b], both ends included.
randint(a, b) == a .. b

\* The outcomes of random.randint(a, b): it raises ValueError on an empty
\* range.
draw(a, b) == IF randint(a, b) = {} THEN {ValueError} ELSE randint(a, b)

\* A conversion to gene indices that is off by one gene.
gene_point_off_by_one(point) == point * genes_per_butterfly + 1

\* point * self.genes_per_butterfly (lines 177-178)
gene_point(point) == point * genes_per_butterfly

\* Slices that include their end index.
splice_through_end(own, other, a, b) ==
    [g \in DOMAIN own |-> IF g < a THEN own[g]
                          ELSE IF g <= b THEN other[g]
                          ELSE own[g]]

\* The three slice assignments of one offspring (lines 185-187, 233-235):
\* own[:a] + other[a:b] + own[b:].
splice(own, other, a, b) ==
    [g \in DOMAIN own |-> IF g < a THEN own[g]
                          ELSE IF g < b THEN other[g]
                          ELSE own[g]]

\* What TwoPointCrossover draws for one mating (lines 168-174).
TwoPointDraws(n_var) ==
    LET num_butterflies == n_var \div genes_per_butterfly
    IN  {[cross |-> FALSE, point1 |-> NotDrawn, point2 |-> NotDrawn]}
        \cup UNION {
            {[cross |-> TRUE, point1 |-> p1, point2 |-> p2] :
                p2 \in IF p1 = ValueError THEN {NotDrawn}
                       ELSE draw(p1, num_butterflies - 1)} :
            p1 \in draw(0, num_butterflies - 1)}

\* A mating whose second offspring is a copy of the second parent.
two_point_mating_one_sided(p1, p2, dr) ==
    IF dr.cross
    THEN <<splice(p1, p2, gene_point(dr.point1), gene_point(dr.point2)), p2>>
    ELSE <<p1, p2>>

\* One iteration of TwoPointCrossover._do (lines 168-196): the two offspring.
two_point_mating(p1, p2, dr) ==
    IF dr.cross
    THEN LET gene_point1 == gene_point(dr.point1)
             gene_point2 == gene_point(dr.point2)
         IN  <<splice(p1, p2, gene_point1, gene_point2),
               splice(p2, p1, gene_point1, gene_point2)>>
    ELSE <<p1, p2>>

\* A block length that forgets the two genes of a butterfly.
genes_per_stage_one_gene_each(size) == butterflies_per_stage(size)

\* self.genes_per_stage = self.butterflies_per_stage * 2 (line 213)
genes_per_stage(size) == butterflies_per_stage(size) * 2

\* What StagewiseCrossover draws for one mating (lines 222-224).
StagewiseDraws(size) ==
    {[cross |-> FALSE, crossover_stage |-> NotDrawn]}
        \cup {[cross |-> TRUE, crossover_stage |-> s] :
                s \in draw(0, num_stages(size) - 1)}

\* One iteration of StagewiseCrossover._do (lines 222-243).
stagewise_mating(size, p1, p2, dr) ==
    IF dr.cross
    THEN LET gene_start == dr.crossover_stage * genes_per_stage(size)
             gene_end == gene_start + genes_per_stage(size)
         IN  <<splice(p1, p2, gene_start, gene_end),
               splice(p2, p1, gene_start, gene_end)>>
    ELSE <<p1, p2>>

Matings(XX) == DOMAIN XX[0]

\* n_var of X.shape
NVar(XX) == ChromLen(XX[0][0])

\* MUTATION_RATE * (1.0 - CURRENT_GEN / GENERATIONS) (line 68), of the
\* CURRENT_GEN that line 65 imports.
adaptive_rate(gen) ==
    RMul(MUTATION_RATE, RSub(RInt(1), Rat(gen, GENERATIONS)))

\* random.random() < rate: random() is in [0, 1).
Chance(rate) ==
    (IF RLt(RInt(0), rate) THEN {TRUE} ELSE {})
        \cup (IF RLt(rate, RInt(1)) THEN {FALSE} ELSE {})

\* A flip that negates the gene.
flip_negate(v) == -v

\* 1 - Xp[i][gene] (lines 88, 91, 94, 95, 139)
flip(v) == 1 - v

\* What BlockwiseMutation draws for one butterfly (lines 79, 84).
ButterflyDraws(rate) ==
    UNION {IF m THEN {[mutate |-> TRUE, strategy |-> s] : s \in draw(0, 2)}
           ELSE {[mutate |-> FALSE, strategy |-> NotDrawn]} : m \in Chance(rate)}

\* One individual of BlockwiseMutation._do (lines 76-95); dr[bf_idx] is what
\* was drawn for butterfly bf_idx.
blockwise_mutation(x, dr) ==
    [g \in DOMAIN x |->
        LET bf_idx == g \div genes_per_butterfly
            gene_start == bf_idx * genes_per_butterfly
            strategy == dr[bf_idx].strategy
        IN  IF ~dr[bf_idx].mutate THEN x[g]
            ELSE IF strategy = 0 THEN (IF g = gene_start THEN flip(x[g]) ELSE x[g])
            ELSE IF strategy = 1 THEN (IF g = gene_start + 1 THEN flip(x[g]) ELSE x[g])
            ELSE flip(x[g])]

\* A mutation that always starts at the first stage.
stage_gene_start_first(stage, size) == 0

\* gene_start = stage_to_mutate * self.genes_per_stage (line 124)
stage_gene_start(stage, size) == stage * genes_per_stage(size)

\* What StagewiseMutation draws for one individual (lines 121, 122, 128,
\* 143): fill[j] is the gene resampled for index j of the stage.
StageDraws(size) ==
    UNION {
        IF ~m THEN {[mutate |-> FALSE, stage_to_mutate |-> NotDrawn,
                     strategy |-> NotDrawn, fill |-> <<>>]}
        ELSE UNION {UNION {
            {[mutate |-> TRUE, stage_to_mutate |-> s, strategy |-> t, fill |-> f] :
                f \in IF t = 3
                      THEN [stage_gene_start(s, size) ..
                            stage_gene_start(s, size) + genes_per_stage(size) - 1
                                -> randint(0, 1)]
                      ELSE {<<>>}} :
            t \in IF s = ValueError THEN {NotDrawn} ELSE draw(0, 3)} :
            s \in draw(0, num_stages(size) - 1)} :
        m \in Chance(MUTATION_RATE)}

\* One individual of StagewiseMutation._do (lines 121-143).
stagewise_mutation(size, x, dr) ==
    IF ~dr.mutate THEN x
    ELSE LET gene_start == stage_gene_start(dr.stage_to_mutate, size)
             gene_end == gene_start + genes_per_stage(size)
         IN  [g \in DOMAIN x |->
                IF g < gene_start \/ g >= gene_end THEN x[g]
                ELSE IF dr.strategy = 0 THEN 0
                ELSE IF dr.strategy = 1 THEN 1
                ELSE IF dr.strategy = 2 THEN flip(x[g])
                ELSE dr.fill[g]]

\* The genomes the random individuals of the initial population are drawn
\* from.
RandomGenomes(n_var) == OperatorGenomes(n_var)

\* generate_smart_initial_population, lines 115-165; rnd[j] is the j-th
\* random individual built.
generate_smart_initial_population(size, pop_size, rnd) ==
    LET chrom_length == get_chromosome_length(size)
        stage_of(g) == g \div (2 * butterflies_per_stage(size))
        population ==
            <<[g \in 0 .. chrom_length - 1 |-> 0],
              [g \in 0 .. chrom_length - 1 |-> 1],
              [g \in 0 .. chrom_length - 1 |->
                  IF stage_of(g) >= num_stages(size) \div 2 THEN 1 ELSE 0],
              [g \in 0 .. chrom_length - 1 |->
                  IF stage_of(g) >= num_stages(size) \div 2 THEN 0 ELSE 1],
              [g \in 0 .. chrom_length - 1 |-> IF g % 2 = 0 THEN 1 ELSE 0],
              [g \in 0 .. chrom_length - 1 |-> IF g % 2 = 0 THEN 0 ELSE 1]>>
            \o rnd
    IN  [i \in 0 .. pop_size - 1 |-> population[i + 1]]

\* How many random individuals the function builds: two, then as many as
\* the population lacks (lines 154-163).
RandomCount(pop_size) == IF pop_size > 8 THEN pop_size - 6 ELSE 2

\* Some random.randint call of the draws raised.
Raised(values) == ValueError \in values

OpsStart ==
    /\ op_pc = "ready"
    /\ op_Y = None
    /\ op_draws = None
    /\ op_rate = None
    /\ op_gen = 0
    /\ globals_CURRENT_GEN = 0

InitOps ==
    /\ \/ /\ op_name \in {"TwoPointCrossover", "StagewiseCrossover"}
          /\ op_fft_size \in OperatorSizes
          /\ op_n = 0
          /\ \E n_matings \in 1 .. MaxMatings :
               op_X \in [0 .. 1 -> [0 .. n_matings - 1 ->
                            OperatorGenomes(get_chromosome_length(op_fft_size))]]
       \/ /\ op_name \in {"BlockwiseMutation", "StagewiseMutation"}
          /\ op_fft_size \in MutationSizes
          /\ op_n = 0
          /\ \E n \in 1 .. MaxMatings :
               op_X \in [0 .. n - 1 ->
                            OperatorGenomes(get_chromosome_length(op_fft_size))]
       \/ /\ op_name = "generate_smart_initial_population"
          /\ op_fft_size \in OperatorSizes
          /\ op_n \in 0 .. MaxPop
          /\ op_X = None
       \/ /\ op_name = "SmartInitialSampling"
          /\ op_fft_size \in SamplingSizes
          /\ op_n \in 0 .. MaxPop
          /\ op_X = None
    /\ OpsStart
    /\ PipelineIdle /\ StructIdle /\ CodecIdle /\ TopIdle

\* An operator that writes into the array it was handed.
written_array_is_input == "X"

\* Xp = np.copy(X) (lines 70, 117) and Y = np.full_like(X, 0) (lines 165,
\* 219): the array the operator writes to is a new one.
written_array == "new"

\* The operator returned Y, or raised, after drawing draws; its writes went
\* to the written array.
OpsFinish(draws, values, Y) ==
    /\ op_draws' = draws
    /\ IF Raised(values)
       THEN op_pc' = "raised" /\ op_Y' = op_Y /\ op_X' = op_X
       ELSE /\ op_pc' = "returned"
            /\ op_Y' = Y
            /\ op_X' = IF written_array = "X" THEN Y ELSE op_X

\* TwoPointCrossover._do
TwoPointCrossoverDo ==
    /\ op_name = "TwoPointCrossover"
    /\ op_pc = "ready"
    /\ \E draws \in [Matings(op_X) -> TwoPointDraws(NVar(op_X))] :
         OpsFinish(draws,
                   UNION {{draws[k].point1, draws[k].point2} : k \in Matings(op_X)},
                   [p \in 0 .. 1 |-> [k \in Matings(op_X) |->
                       two_point_mating(op_X[0][k], op_X[1][k], draws[k])[p + 1]]])
    /\ UNCHANGED <<op_name, op_fft_size, op_n, op_rate, op_gen, globals_CURRENT_GEN>>
    /\ UNCHANGED <<pipeVars, structVars, codecVars, topVars>>

\* StagewiseCrossover._do
StagewiseCrossoverDo ==
    /\ op_name = "StagewiseCrossover"
    /\ op_pc = "ready"
    /\ \E draws \in [Matings(op_X) -> StagewiseDraws(op_fft_size)] :
         OpsFinish(draws,
                   {draws[k].crossover_stage : k \in Matings(op_X)},
                   [p \in 0 .. 1 |-> [k \in Matings(op_X) |->
                       stagewise_mating(op_fft_size, op_X[0][k], op_X[1][k], draws[k])[p + 1]]])
    /\ UNCHANGED <<op_name, op_fft_size, op_n, op_rate, op_gen, globals_CURRENT_GEN>>
    /\ UNCHANGED <<pipeVars, structVars, codecVars, topVars>>

\* BlockwiseMutation._do, called between two population evaluations.  The
\* rate is computed from globalVariablesMixedFFT.CURRENT_GEN; op_gen records
\* how many evaluations the pipeline had performed.
BlockwiseMutationDo ==
    /\ op_name = "BlockwiseMutation"
    /\ op_pc = "ready"
    /\ evalPc = "idle"
    /\ LET rate == adaptive_rate(globals_CURRENT_GEN)
           butterflies(i) == 0 .. (ChromLen(op_X[i]) \div genes_per_butterfly) - 1
       IN  /\ op_rate' = rate
           /\ op_gen' = CURRENT_GEN
           /\ \E draws \in [DOMAIN op_X -> [butterflies(0) -> ButterflyDraws(rate)]] :
                OpsFinish(draws,
                          {draws[i][b].strategy : i \in DOMAIN op_X, b \in butterflies(0)},
                          [i \in DOMAIN op_X |-> blockwise_mutation(op_X[i], draws[i])])
    /\ UNCHANGED <<op_name, op_fft_size, op_n, globals_CURRENT_GEN>>
    /\ UNCHANGED <<pipeVars, structVars, codecVars, topVars>>

\* StagewiseMutation._do
StagewiseMutationDo ==
    /\ op_name = "StagewiseMutation"
    /\ op_pc = "ready"
    /\ \E draws \in [DOMAIN op_X -> StageDraws(op_fft_size)] :
         OpsFinish(draws,
                   UNION {{draws[i].stage_to_mutate, draws[i].strategy} : i \in DOMAIN op_X},
                   [i \in DOMAIN op_X |->
                       stagewise_mutation(op_fft_size, op_X[i], draws[i])])
    /\ UNCHANGED <<op_name, op_fft_size, op_n, op_rate, op_gen, globals_CURRENT_GEN>>
    /\ UNCHANGED <<pipeVars, structVars, codecVars, topVars>>

\* generate_smart_initial_population(fft_size, pop_size)
GenerateSmartInitialPopulation ==
    /\ op_name = "generate_smart_initial_population"
    /\ op_pc = "ready"
    /\ \E rnd \in [1 .. RandomCount(op_n) ->
                      RandomGenomes(get_chromosome_length(op_fft_size))] :
         /\ op_Y' = generate_smart_initial_population(op_fft_size, op_n, rnd)
         /\ op_draws' = rnd
         /\ op_pc' = "returned"
    /\ UNCHANGED <<op_name, op_fft_size, op_X, op_n, op_rate, op_gen, globals_CURRENT_GEN>>
    /\ UNCHANGED <<pipeVars, structVars, codecVars, topVars>>

\* SmartInitialSampling._do(problem, n_samples), lines 33-47, for the problem
\* MixedPrecisionFFTProblem(fft_size = op_fft_size): the population is
\* generated for CURRENT_FFT_SIZE of globalVariablesMixedFFT.
SmartInitialSamplingDo ==
    /\ op_name = "SmartInitialSampling"
    /\ op_pc = "ready"
    /\ IF ENABLE_SMART_INITIALIZATION
       THEN \E rnd \in [1 .. RandomCount(op_n) ->
                          RandomGenomes(get_chromosome_length(CURRENT_FFT_SIZE))] :
              /\ op_Y' = generate_smart_initial_population(CURRENT_FFT_SIZE, op_n, rnd)
              /\ op_draws' = rnd
       ELSE \E rnd \in [0 .. op_n - 1 ->
                          RandomGenomes(get_chromosome_length(op_fft_size))] :
              /\ op_Y' = rnd
              /\ op_draws' = rnd
    /\ op_pc' = "returned"
    /\ UNCHANGED <<op_name, op_fft_size, op_X, op_n, op_rate, op_gen, globals_CURRENT_GEN>>
    /\ UNCHANGED <<pipeVars, structVars, codecVars, topVars>>

NextOps ==
    \/ SmartInitialSamplingDo
    \/ TwoPointCrossoverDo
    \/ StagewiseCrossoverDo
    \/ BlockwiseMutationDo
    \/ StagewiseMutationDo
    \/ GenerateSmartInitialPopulation

SpecOps == InitOps /\ [][NextOps]_vars

(***************************************************************************)
(* Claims about the genome operators.                                      *)
(***************************************************************************)
\* The offspring is own everywhere except on the gene range [a, b), where it
\* is other.
ExchangedOn(child, own, other, a, b) ==
    /\ DOMAIN child = DOMAIN own
    /\ \A g \in DOMAIN own :
         child[g] = IF a <= g /\ g < b THEN other[g] ELSE own[g]

Units(XX) == 0 .. (NVar(XX) \div 2) - 1

\* C9: for every mating, TwoPointCrossover yields copies of the parents or,
\* for some unit indices i <= j, offspring 1 equal to parent 1 except on the
\* gene range [2i, 2j), where it equals parent 2, and offspring 2
\* symmetrically; every unit's gene pair (2u, 2u+1) of an offspring comes
\* from one parent.
C9_TwoPointUnitAligned ==
    (op_name = "TwoPointCrossover" /\ op_Y # None) =>
        \A k \in Matings(op_X) :
            LET p1 == op_X[0][k]
                p2 == op_X[1][k]
                c1 == op_Y[0][k]
                c2 == op_Y[1][k]
            IN  /\ \/ c1 = p1 /\ c2 = p2
                   \/ \E i \in Units(op_X) : \E j \in i .. (NVar(op_X) \div 2) - 1 :
                        /\ ExchangedOn(c1, p1, p2, 2 * i, 2 * j)
                        /\ ExchangedOn(c2, p2, p1, 2 * i, 2 * j)
                /\ \A u \in Units(op_X) :
                     \/ /\ c1[2 * u] = p1[2 * u] /\ c1[2 * u + 1] = p1[2 * u + 1]
                        /\ c2[2 * u] = p2[2 * u] /\ c2[2 * u + 1] = p2[2 * u + 1]
                     \/ /\ c1[2 * u] = p2[2 * u] /\ c1[2 * u + 1] = p2[2 * u + 1]
                        /\ c2[2 * u] = p1[2 * u] /\ c2[2 * u + 1] = p1[2 * u + 1]

\* C9 witness: an all-low and an all-high parent of four units exchanged
\* units 1 and 2, genes 2..5.
C9_Witness ==
    /\ op_name = "TwoPointCrossover" /\ op_Y # None
    /\ NVar(op_X) = 8
    /\ op_X[0][0] = [g \in 0 .. 7 |-> 0]
    /\ op_X[1][0] = [g \in 0 .. 7 |-> 1]
    /\ op_Y[0][0] = [g \in 0 .. 7 |-> IF g \in 2 .. 5 THEN 1 ELSE 0]
    /\ op_Y[1][0] = [g \in 0 .. 7 |-> IF g \in 2 .. 5 THEN 0 ELSE 1]

\* C10: for every mating, StagewiseCrossover yields copies of the parents
\* or, for one stage s in 0 .. num_stages-1, offspring 1 equal to parent 1
\* outside the gene block [s*genes_per_stage, (s+1)*genes_per_stage) and to
\* parent 2 inside it, and offspring 2 the mirror image, the block being the
\* 2*butterflies_per_stage genes of stage s.
C10_StagewiseWholeStage ==
    (op_name = "StagewiseCrossover" /\ op_Y # None) =>
        \A k \in Matings(op_X) :
            LET p1 == op_X[0][k]
                p2 == op_X[1][k]
                c1 == op_Y[0][k]
                c2 == op_Y[1][k]
                block == 2 * (op_fft_size \div 2)
            IN  \/ c1 = p1 /\ c2 = p2
                \/ \E s \in 0 .. num_stages(op_fft_size) - 1 :
                     /\ ExchangedOn(c1, p1, p2, s * block, (s + 1) * block)
                     /\ ExchangedOn(c2, p2, p1, s * block, (s + 1) * block)

\* C10 witness: an all-low and an all-high parent of an 8-point design
\* (three stages of eight genes) exchanged stage 1, genes 8..15.
C10_Witness ==
    /\ op_name = "StagewiseCrossover" /\ op_Y # None
    /\ op_fft_size = 8
    /\ op_X[0][0] = [g \in 0 .. 23 |-> 0]
    /\ op_X[1][0] = [g \in 0 .. 23 |-> 1]
    /\ op_Y[0][0] = [g \in 0 .. 23 |-> IF g \in 8 .. 15 THEN 1 ELSE 0]
    /\ op_Y[1][0] = [g \in 0 .. 23 |-> IF g \in 8 .. 15 THEN 0 ELSE 1]

(***************************************************************************)
(* Further claims about the evaluation pipeline.                           *)
(***************************************************************************)
\* The task evaluated its genome itself; it did not return a cached result.
Fresh(t) == t.design_gen # -1

C18_FailuresStoredAsSentinels ==
    \A i \in DOMAIN futures :
        LET t == futures[i]
            c == t.chromosome
        IN  /\ (/\ Fresh(t) /\ t.pc = "done"
                /\ <<t.power, t.area>> # <<ToolPower(c), ToolArea(c)>>) =>
                   <<t.power, t.area>> = SynthSentinel
            /\ (/\ Fresh(t) /\ t.pc = "done"
                /\ <<t.sqnr, t.mae>> # <<ToolSqnr(c), ToolMae(c)>>) =>
                   <<t.sqnr, t.mae>> = SimSentinel
            /\ (Fresh(t) /\ t.pc = "done") =>
                   hash_chromosome(c) \in DOMAIN RESULT_CACHE

\* C20: the generation counter never decreases; it grows by exactly one per
\* population evaluation, at the step that starts the evaluation and before
\* any of its tasks has started; every task of a population that names a
\* design embeds the same counter value, the current one.
C20_GenerationCounter ==
    /\ [][/\ CURRENT_GEN' >= CURRENT_GEN
          /\ (evalPc = "idle" /\ evalPc' = "running") <=>
                 CURRENT_GEN' = CURRENT_GEN + 1
          /\ CURRENT_GEN' # CURRENT_GEN =>
                 \A i \in DOMAIN futures' : futures'[i].pc = "pending"]_vars
    /\ [](\A i \in DOMAIN futures :
             Fresh(futures[i]) => futures[i].design_gen = CURRENT_GEN)

\* C20 witness: in the second population evaluation both tasks named their
\* designs after generation 2.
C20_Witness ==
    /\ CURRENT_GEN = 2
    /\ evalPc = "running"
    /\ \A i \in DOMAIN futures : futures[i].design_gen = 2

(***************************************************************************)
(* Further claims about decoding.                                          *)
(***************************************************************************)
\* C16: for every valid size and every genome of length 2*total_units, the
\* decoded phenotype has num_stages stages of units_per_stage units; the unit
\* at (stage, unit_in_stage) has global index u = stage*units_per_stage +
\* unit_in_stage, primary choice gene[2u] and secondary choice gene[2u+1]; an
\* all-zero genome decodes to the low code in every choice.
C16_StageMajorDecoding ==
    LET stages == FloorLog2(gen_fft_size)
        units == gen_fft_size \div 2
    IN  (/\ gen_pc = "decoded"
         /\ ValidSize(gen_fft_size)
         /\ ChromLen(dec_chromosome) = 2 * units * stages) =>
            /\ config.num_stages = stages
            /\ config.butterflies_per_stage = units
            /\ Len(config.stages) = stages
            /\ \A s \in 0 .. stages - 1 :
                 /\ Len(config.stages[s + 1].butterflies) = units
                 /\ \A b \in 0 .. units - 1 :
                      LET u == s * units + b
                          unit == config.stages[s + 1].butterflies[b + 1]
                      IN  /\ unit.global_butterfly_id = u
                          /\ unit.mult_precision = dec_chromosome[2 * u]
                          /\ unit.add_precision = dec_chromosome[2 * u + 1]
                          /\ (\A g \in DOMAIN dec_chromosome : dec_chromosome[g] = 0) =>
                                 unit.mult_precision = 0 /\ unit.add_precision = 0

\* C16 witness: the 8-gene genome of a 4-point design whose only high gene
\* is gene 5 was decoded; unit 0 of stage 1, global index 2, has the high
\* secondary choice and unit 0 of stage 0 has none.
C16_Witness ==
    /\ gen_pc = "decoded"
    /\ gen_fft_size = 4
    /\ dec_chromosome = [g \in 0 .. 7 |-> IF g = 5 THEN 1 ELSE 0]
    /\ config.stages[2].butterflies[1].global_butterfly_id = 2
    /\ config.stages[2].butterflies[1].add_precision = 1
    /\ config.stages[2].butterflies[1].mult_precision = 0
    /\ config.stages[1].butterflies[1].add_precision = 0

(***************************************************************************)
(* The three reporters of the chromosome length: the generator's           *)
(* get_chromosome_length, calculate_chromosome_size and the bounds of      *)
(* determineDecisionVariableLimit.                                         *)
(***************************************************************************)
\* The reporters are run for every size 1 .. MaxDenseSize and for the powers
\* of two up to 2^MaxLog2Size.
MaxDenseSize == 64
MaxLog2Size == 10

LengthSizes == (1 .. MaxDenseSize) \cup {Pow2(k) : k \in 1 .. MaxLog2Size}

\* A size computation that stops at the number of butterflies.
calculate_chromosome_size_per_butterfly(size) ==
    LET stages == FloorLog2(size)
        per_stage == size \div 2
    IN  per_stage * stages

\* calculate_chromosome_size, lines 57-61, for fft_size >= 1
calculate_chromosome_size(size) ==
    LET stages == FloorLog2(size)
        per_stage == size \div 2
        total == per_stage * stages
        chromosome_length == 2 * total
    IN  chromosome_length

\* determineDecisionVariableLimit, lines 260-268, for fft_size >= 1: the
\* lists [0] * chromosome_length and [1] * chromosome_length.
determineDecisionVariableLimit(size) ==
    LET stages == FloorLog2(size)
        per_stage == size \div 2
        total == per_stage * stages
        chromosome_length == 2 * total
    IN  [lower_limit |-> [g \in 1 .. chromosome_length |-> 0],
         upper_limit |-> [g \in 1 .. chromosome_length |-> 1]]

InitLength ==
    /\ gen_pc = "new"
    /\ gen_fft_size \in LengthSizes
    /\ generator = None
    /\ dec_chromosome = <<>>
    /\ config = None
    /\ length_reports = <<>>
    /\ PipelineIdle /\ CodecIdle /\ OpsIdle /\ TopIdle

\* generator.get_chromosome_length(), lines 35-38
GetChromosomeLength ==
    /\ gen_pc = "built"
    /\ "generator" \notin DOMAIN length_reports
    /\ length_reports' = ("generator" :> 2 * generator.total_butterflies) @@ length_reports
    /\ UNCHANGED <<gen_pc, gen_fft_size, generator, dec_chromosome, config>>
    /\ UNCHANGED <<pipeVars, codecVars, opsVars, topVars>>

\* calculate_chromosome_size(fft_size)
CalculateChromosomeSize ==
    /\ "globals" \notin DOMAIN length_reports
    /\ length_reports' =
           ("globals" :> calculate_chromosome_size(gen_fft_size)) @@ length_reports
    /\ UNCHANGED <<gen_pc, gen_fft_size, generator, dec_chromosome, config>>
    /\ UNCHANGED <<pipeVars, codecVars, opsVars, topVars>>

\* determineDecisionVariableLimit(fft_size)
DetermineDecisionVariableLimit ==
    /\ "limits" \notin DOMAIN length_reports
    /\ length_reports' =
           ("limits" :> determineDecisionVariableLimit(gen_fft_size)) @@ length_reports
    /\ UNCHANGED <<gen_pc, gen_fft_size, generator, dec_chromosome, config>>
    /\ UNCHANGED <<pipeVars, codecVars, opsVars, topVars>>

NextLength ==
    \/ Build
    \/ GetChromosomeLength
    \/ CalculateChromosomeSize
    \/ DetermineDecisionVariableLimit

SpecLength == InitLength /\ [][NextLength]_vars

\* C17: for every power-of-two size 2^k in [2, 1024], get_chromosome_length,
\* calculate_chromosome_size and the lengths of both bounds returned by
\* determineDecisionVariableLimit all equal 2 * (size/2) * log2(size) =
\* 2^k * k: 24 for size 8, 10240 for size 1024.
C17_LengthsAgree ==
    \A k \in 1 .. 10 :
        gen_fft_size = Pow2(k) =>
            LET expected == Pow2(k) * k
            IN  /\ "generator" \in DOMAIN length_reports =>
                       length_reports["generator"] = expected
                /\ "globals" \in DOMAIN length_reports =>
                       length_reports["globals"] = expected
                /\ "limits" \in DOMAIN length_reports =>
                       /\ Len(length_reports["limits"].lower_limit) = expected
                       /\ Len(length_reports["limits"].upper_limit) = expected
                /\ gen_fft_size = 8 => expected = 24
                /\ gen_fft_size = 1024 => expected = 10240

\* C17 witness: for size 1024 all three reporters answered 10240.
C17_Witness ==
    /\ gen_fft_size = 1024
    /\ DOMAIN length_reports = {"generator", "globals", "limits"}
    /\ length_reports["generator"] = 10240
    /\ length_reports["globals"] = 10240
    /\ Len(length_reports["limits"].lower_limit) = 10240

(***************************************************************************)
(* Further claims about the genome operators.                              *)
(***************************************************************************)
\* C11: for every unit u of every individual, after BlockwiseMutation the
\* pair (gene 2u, gene 2u+1) is the input pair when the unit was not chosen,
\* and otherwise the input pair with only the primary gene, only the
\* secondary gene, or both genes flipped, according to the unit's own draw
\* alone; the genome length is unchanged and every gene is 0 or 1.
C11_BlockwiseUnitEdits ==
    (op_name = "BlockwiseMutation" /\ op_pc # "ready") =>
        /\ op_pc = "returned"
        /\ DOMAIN op_Y = DOMAIN op_X
        /\ \A i \in DOMAIN op_X :
             LET x == op_X[i]
                 y == op_Y[i]
             IN  /\ DOMAIN y = DOMAIN x
                 /\ \A g \in DOMAIN y : y[g] \in {0, 1}
                 /\ \A u \in 0 .. (ChromLen(x) \div 2) - 1 :
                      LET dr == op_draws[i][u]
                          pair(c) == <<c[2 * u], c[2 * u + 1]>>
                      IN  pair(y) =
                            IF ~dr.mutate THEN pair(x)
                            ELSE IF dr.strategy = 0 THEN <<1 - x[2 * u], x[2 * u + 1]>>
                            ELSE IF dr.strategy = 1 THEN <<x[2 * u], 1 - x[2 * u + 1]>>
                            ELSE <<1 - x[2 * u], 1 - x[2 * u + 1]>>

\* C11 witness: of an all-high genome of four units, unit 0 had its primary
\* gene flipped, unit 1 was left alone, unit 2 had its secondary gene
\* flipped and unit 3 both.
C11_Witness ==
    /\ op_name = "BlockwiseMutation" /\ op_pc = "returned"
    /\ op_fft_size = 4
    /\ op_X[0] = [g \in 0 .. 7 |-> 1]
    /\ op_Y[0] = (0 :> 0 @@ 1 :> 1 @@ 2 :> 1 @@ 3 :> 1 @@
                  4 :> 1 @@ 5 :> 0 @@ 6 :> 0 @@ 7 :> 0)

\* C12: StagewiseMutation changes genes of at most one stage: an individual
\* that was not chosen is unchanged; for a chosen one, every gene outside
\* the drawn stage's range [s*genes_per_stage, (s+1)*genes_per_stage) is
\* the input gene, and inside it every gene is 0 under force-all-to-0, 1
\* under force-all-to-1, the complement of the input gene under flip, and 0
\* or 1 under resample.
C12_StagewiseMutationOneStage ==
    (op_name = "StagewiseMutation" /\ op_pc # "ready") =>
        /\ op_pc = "returned"
        /\ DOMAIN op_Y = DOMAIN op_X
        /\ \A i \in DOMAIN op_X :
             LET x == op_X[i]
                 y == op_Y[i]
                 dr == op_draws[i]
                 block == 2 * (op_fft_size \div 2)
                 lo == dr.stage_to_mutate * block
                 hi == lo + block
             IN  /\ DOMAIN y = DOMAIN x
                 /\ ~dr.mutate => y = x
                 /\ dr.mutate =>
                      /\ dr.stage_to_mutate \in 0 .. num_stages(op_fft_size) - 1
                      /\ \A g \in DOMAIN x :
                           IF g < lo \/ g >= hi THEN y[g] = x[g]
                           ELSE CASE dr.strategy = 0 -> y[g] = 0
                                  [] dr.strategy = 1 -> y[g] = 1
                                  [] dr.strategy = 2 -> y[g] = 1 - x[g]
                                  [] OTHER -> y[g] \in {0, 1}

\* C12 witness: force-all-to-0 on stage 1 of an alternating genome of a
\* 4-point design zeroed genes 4..7 and left genes 0..3 alone.
C12_Witness ==
    /\ op_name = "StagewiseMutation" /\ op_pc = "returned"
    /\ op_fft_size = 4
    /\ op_X[0] = [g \in 0 .. 7 |-> g % 2]
    /\ op_draws[0].mutate /\ op_draws[0].stage_to_mutate = 1
    /\ op_draws[0].strategy = 0
    /\ op_Y[0] = [g \in 0 .. 7 |-> IF g < 4 THEN g % 2 ELSE 0]

\* The genomes of an operator's output array.
OutputGenomes ==
    IF op_name \in {"TwoPointCrossover", "StagewiseCrossover"}
    THEN {op_Y[p][k] : p \in 0 .. 1, k \in Matings(op_X)}
    ELSE {op_Y[i] : i \in DOMAIN op_X}

FourOperators ==
    {"BlockwiseMutation", "StagewiseMutation", "TwoPointCrossover",
     "StagewiseCrossover"}

\* C13: for size 2 each of the four operators returns, whatever it draws,
\* without raising, and every genome it returns has length 2; and whenever
\* TwoPointCrossover draws point1 = point2, for any size, both offspring
\* equal their parents.
C13_SingleUnitAndEqualPoints ==
    /\ (op_name \in FourOperators /\ op_fft_size = 2 /\ op_pc # "ready") =>
          /\ op_pc = "returned"
          /\ \A y \in OutputGenomes : DOMAIN y = 0 .. 1
    /\ (op_name = "TwoPointCrossover" /\ op_pc # "ready") =>
          \A k \in Matings(op_X) :
              (op_draws[k].cross /\ op_draws[k].point1 = op_draws[k].point2) =>
                  /\ op_pc = "returned"
                  /\ op_Y[0][k] = op_X[0][k]
                  /\ op_Y[1][k] = op_X[1][k]

\* C13 witness: TwoPointCrossover on a single-unit design chose to cross,
\* drew point1 = point2 = 0 and returned the parents.
C13_Witness ==
    /\ op_name = "TwoPointCrossover" /\ op_pc = "returned"
    /\ op_fft_size = 2
    /\ op_X[0][0] = (0 :> 0 @@ 1 :> 0)
    /\ op_X[1][0] = (0 :> 1 @@ 1 :> 1)
    /\ op_draws[0] = [cross |-> TRUE, point1 |-> 0, point2 |-> 0]
    /\ op_Y = op_X

\* The six canonical genomes of a design, in the documented order: stages
\* below num_stages \div 2 form the first half.
Canonical(size) ==
    LET n == 2 * (size \div 2) * FloorLog2(size)
        half == FloorLog2(size) \div 2
        stage(g) == g \div size
    IN  <<[g \in 0 .. n - 1 |-> 0],
          [g \in 0 .. n - 1 |-> 1],
          [g \in 0 .. n - 1 |-> IF stage(g) < half THEN 0 ELSE 1],
          [g \in 0 .. n - 1 |-> IF stage(g) < half THEN 1 ELSE 0],
          [g \in 0 .. n - 1 |-> 1 - (g % 2)],
          [g \in 0 .. n - 1 |-> g % 2]>>

Min(a, b) == IF a < b THEN a ELSE b

\* C14: for every size and pop_size, generate_smart_initial_population
\* returns exactly pop_size genomes whose first min(pop_size, 6) entries are
\* the canonical genomes in order (all-low, all-high, low-to-high,
\* high-to-low, primary-high/secondary-low, primary-low/secondary-high),
\* and those entries are pairwise distinct.
C14_CanonicalGenomesOnce ==
    (op_name = "generate_smart_initial_population" /\ op_pc # "ready") =>
        /\ op_pc = "returned"
        /\ DOMAIN op_Y = 0 .. op_n - 1
        /\ \A i \in 0 .. Min(op_n, 6) - 1 : op_Y[i] = Canonical(op_fft_size)[i + 1]
        /\ \A i, j \in 0 .. Min(op_n, 6) - 1 : i # j => op_Y[i] # op_Y[j]

(***************************************************************************)
(* An optimisation run: population evaluations with BlockwiseMutation      *)
(* called between them, as runMixedFFTOptimization sets the algorithm up.  *)
(* _evaluate counts generations in objectiveEvaluationFFT's own global     *)
(* CURRENT_GEN (line 68: a name bound by "from globalVariablesMixedFFT     *)
(* import *"); BlockwiseMutation imports CURRENT_GEN from the module       *)
(* globalVariablesMixedFFT at each call, and no statement assigns to that  *)
(* module's name.                                                          *)
(***************************************************************************)
\* The run mutates one all-low offspring.
RunGenomes(n_var) == {[g \in 0 .. n_var - 1 |-> 0]}

InitRun ==
    /\ PipelineStart
    /\ op_name = "BlockwiseMutation"
    /\ op_fft_size = fft_size
    /\ op_n = 0
    /\ op_X \in [0 .. 0 -> RunGenomes(get_chromosome_length(op_fft_size))]
    /\ OpsStart
    /\ StructIdle /\ CodecIdle /\ TopIdle

NextRun ==
    \/ NextPipeline
    \/ BlockwiseMutationDo

SpecRun == InitRun /\ [][NextRun]_vars

\* C19: the per-unit probability BlockwiseMutation applies after g
\* population evaluations is MUTATION_RATE * (1 - g / GENERATIONS): less
\* than MUTATION_RATE once a population has been evaluated.
C19_RateAnnealed ==
    (op_name = "BlockwiseMutation" /\ op_pc = "returned") =>
        /\ op_rate = RMul(MUTATION_RATE, RSub(RInt(1), Rat(op_gen, GENERATIONS)))
        /\ op_gen >= 1 => RLt(op_rate, MUTATION_RATE)

(***************************************************************************)
(* The cache key: _hash_chromosome applied to two gene sequences, as       *)
(* evaluate_solution does for the genome it looks up (line 116) and did    *)
(* for the genome whose result it stored (line 146).  op_X holds the two   *)
(* sequences and op_Y the two keys.                                        *)
(***************************************************************************)
\* Keys are taken of the binary gene sequences of length 0 .. MaxKeyLen.
MaxKeyLen == 4

KeyChromosomes == UNION {Chromosomes(n) : n \in 0 .. MaxKeyLen}

InitHash ==
    /\ op_name = "_hash_chromosome"
    /\ op_fft_size = 2
    /\ op_n = 0
    /\ op_X \in [0 .. 1 -> KeyChromosomes]
    /\ OpsStart
    /\ PipelineIdle /\ StructIdle /\ CodecIdle /\ TopIdle

\* chrom_hash = self._hash_chromosome(chromosome), for both sequences
HashChromosome ==
    /\ op_name = "_hash_chromosome"
    /\ op_pc = "ready"
    /\ op_Y' = [p \in 0 .. 1 |-> hash_chromosome(op_X[p])]
    /\ op_pc' = "returned"
    /\ UNCHANGED <<op_name, op_fft_size, op_X, op_n, op_draws, op_rate, op_gen,
                   globals_CURRENT_GEN>>
    /\ UNCHANGED <<pipeVars, structVars, codecVars, topVars>>

NextHash == HashChromosome

SpecHash == InitHash /\ [][NextHash]_vars

\* C21: the key string of a binary gene sequence has one character per
\* gene, in gene order; two sequences get the same key string exactly when
\* they are the same sequence, whatever their lengths, so a lookup hits
\* only the entry stored for an identical sequence.
C21_KeyDeterminedByGenes ==
    (op_name = "_hash_chromosome" /\ op_pc = "returned") =>
        /\ \A p \in 0 .. 1 :
             /\ Len(op_Y[p]) = ChromLen(op_X[p])
             /\ \A g \in DOMAIN op_X[p] :
                  op_Y[p][g + 1] = (IF op_X[p][g] = 0 THEN "0" ELSE "1")
        /\ (op_Y[0] = op_Y[1]) <=> (op_X[0] = op_X[1])

\* C21 witness: the sequences 0,1 and 1,0 hold the same genes in another
\* order and got different keys.
C21_Witness ==
    /\ op_name = "_hash_chromosome" /\ op_pc = "returned"
    /\ op_X[0] = (0 :> 0 @@ 1 :> 1)
    /\ op_X[1] = (0 :> 1 @@ 1 :> 0)
    /\ op_Y[0] = <<"0", "1">>
    /\ op_Y[1] = <<"1", "0">>

\* Two arrays of the operator have the same shape.
SameShape(A, B) ==
    /\ DOMAIN A = DOMAIN B
    /\ IF op_name \in {"TwoPointCrossover", "StagewiseCrossover"}
       THEN \A p \in DOMAIN A :
              /\ DOMAIN A[p] = DOMAIN B[p]
              /\ \A k \in DOMAIN A[p] : DOMAIN A[p][k] = DOMAIN B[p][k]
       ELSE \A i \in DOMAIN A : DOMAIN A[i] = DOMAIN B[i]

C23_InitialGenomesFitProblem ==
    (op_name = "SmartInitialSampling" /\ op_pc # "ready") =>
        /\ op_pc = "returned"
        /\ \A i \in DOMAIN op_Y :
             /\ DOMAIN op_Y[i] = 0 .. 2 * total_butterflies(op_fft_size) - 1
             /\ \A g \in DOMAIN op_Y[i] : op_Y[i][g] \in {0, 1}

(***************************************************************************)
(* Further claims about failed evaluations.                                *)
(***************************************************************************)
\* Which of the three constraints (power, area, SQNR) a row violates.
Verdict(g) == [j \in 1 .. 3 |-> RLt(RInt(0), g[j])]

\* C24: a genome whose task raised gets a constraint row with all three
\* entries violated (> 0), the verdict of a genome whose synthesis and
\* simulation both returned their sentinels.
C24_FallbackViolatesAll ==
    out.set =>
        \A k \in Rows :
            futures[k].pc = "raised" =>
                /\ Verdict(out.G[k]) = [j \in 1 .. 3 |-> TRUE]
                /\ Verdict(out.G[k]) =
                       Verdict(compute_objectives_and_constraints(
                                   [power |-> SynthSentinel[1], area |-> SynthSentinel[2],
                                    sqnr |-> SimSentinel[1], mae |-> SimSentinel[2]])[2])

(***************************************************************************)
(* Further claims about the crossovers.                                    *)
(***************************************************************************)
\* The gene pair of unit u.
UnitPair(c, u) == <<c[2 * u], c[2 * u + 1]>>

\* C25: TwoPointCrossover never exchanges the pair of the last unit (genes
\* n_var-2 and n_var-1): whatever the points, offspring 1 carries parent 1's
\* and offspring 2 parent 2's; for every other unit some choice of points
\* gives offspring 1 parent 2's pair and offspring 2 parent 1's.
C25_LastUnitNeverExchanged ==
    (op_name = "TwoPointCrossover" /\ op_pc # "ready") =>
        /\ op_pc = "returned"
        /\ \A k \in Matings(op_X) :
             LET p1 == op_X[0][k]
                 p2 == op_X[1][k]
                 last == (NVar(op_X) \div 2) - 1
             IN  /\ UnitPair(op_Y[0][k], last) = UnitPair(p1, last)
                 /\ UnitPair(op_Y[1][k], last) = UnitPair(p2, last)
                 /\ op_Y[0][k][NVar(op_X) - 1] = p1[NVar(op_X) - 1]
                 /\ op_Y[0][k][NVar(op_X) - 2] = p1[NVar(op_X) - 2]
                 /\ \A u \in 0 .. last - 1 :
                      \E dr \in TwoPointDraws(NVar(op_X)) :
                          /\ ~Raised({dr.point1, dr.point2})
                          /\ LET c == two_point_mating(p1, p2, dr)
                             IN  /\ UnitPair(c[1], u) = UnitPair(p2, u)
                                 /\ UnitPair(c[2], u) = UnitPair(p1, u)

\* C25 witness: with the widest choice of points, 0 and 3 of four units, an
\* all-low and an all-high parent exchanged units 0, 1 and 2 and kept
\* their own last unit.
C25_Witness ==
    /\ op_name = "TwoPointCrossover" /\ op_pc = "returned"
    /\ op_fft_size = 4
    /\ op_draws[0] = [cross |-> TRUE, point1 |-> 0, point2 |-> 3]
    /\ op_X[0][0] = [g \in 0 .. 7 |-> 0]
    /\ op_X[1][0] = [g \in 0 .. 7 |-> 1]
    /\ op_Y[0][0] = [g \in 0 .. 7 |-> IF g < 6 THEN 1 ELSE 0]
    /\ op_Y[1][0] = [g \in 0 .. 7 |-> IF g < 6 THEN 0 ELSE 1]

\* C26: both crossovers conserve genes position by position: for every
\* mating and gene index g the offspring hold, between them, the two genes
\* the parents hold at g, whether or not the crossover fired; offspring of
\* binary parents of length L are binary and of length L.
C26_GenesConserved ==
    (op_name \in {"TwoPointCrossover", "StagewiseCrossover"} /\ op_pc # "ready") =>
        /\ op_pc = "returned"
        /\ \A k \in Matings(op_X) :
             LET p1 == op_X[0][k]
                 p2 == op_X[1][k]
                 c1 == op_Y[0][k]
                 c2 == op_Y[1][k]
             IN  /\ DOMAIN c1 = DOMAIN p1 /\ DOMAIN c2 = DOMAIN p2
                 /\ \A g \in DOMAIN p1 :
                      /\ \/ c1[g] = p1[g] /\ c2[g] = p2[g]
                         \/ c1[g] = p2[g] /\ c2[g] = p1[g]
                      /\ c1[g] \in {0, 1} /\ c2[g] \in {0, 1}

\* C26 witness: StagewiseCrossover exchanged stage 0 of an all-high and an
\* alternating parent of a 4-point design.
C26_Witness ==
    /\ op_name = "StagewiseCrossover" /\ op_pc = "returned"
    /\ op_fft_size = 4
    /\ op_draws[0] = [cross |-> TRUE, crossover_stage |-> 0]
    /\ op_X[0][0] = [g \in 0 .. 7 |-> 1]
    /\ op_X[1][0] = [g \in 0 .. 7 |-> g % 2]
    /\ op_Y[0][0] = [g \in 0 .. 7 |-> IF g < 4 THEN g % 2 ELSE 1]
    /\ op_Y[1][0] = [g \in 0 .. 7 |-> IF g < 4 THEN 1 ELSE g % 2]

(***************************************************************************)
(* Scoring: _compute_objectives_and_constraints applied to two results     *)
(* that differ in their SQNR only.  op_X holds the two results and op_Y    *)
(* the two (objectives, constraints) pairs.                                *)
(***************************************************************************)
\* SQNR values run over the whole decibels from the sentinel to MaxSqnrDb.
MaxSqnrDb == 40

ScoredResults ==
    [power : {Rat(1, 2)}, area : {RInt(1000)},
     sqnr : {RInt(s) : s \in SENTINEL_SQNR .. MaxSqnrDb},
     mae : {Rat(1, 100), RInt(2)}]

InitScore ==
    /\ op_name = "_compute_objectives_and_constraints"
    /\ op_fft_size = 2
    /\ op_n = 0
    /\ op_X \in {r \in [0 .. 1 -> ScoredResults] : r[0].mae = r[1].mae}
    /\ OpsStart
    /\ PipelineIdle /\ StructIdle /\ CodecIdle /\ TopIdle

\* self._compute_objectives_and_constraints(results), for both results;
\* 1.0 / (sqnr + 1.0) raises ZeroDivisionError for sqnr = -1.
ComputeObjectivesAndConstraints ==
    /\ op_name = "_compute_objectives_and_constraints"
    /\ op_pc = "ready"
    /\ IF \E p \in 0 .. 1 : RAdd(op_X[p].sqnr, RInt(1)) = RInt(0)
       THEN op_pc' = "raised" /\ op_Y' = op_Y
       ELSE /\ op_pc' = "returned"
            /\ op_Y' = [p \in 0 .. 1 |-> compute_objectives_and_constraints(op_X[p])]
    /\ UNCHANGED <<op_name, op_fft_size, op_X, op_n, op_draws, op_rate, op_gen,
                   globals_CURRENT_GEN>>
    /\ UNCHANGED <<pipeVars, structVars, codecVars, topVars>>

NextScore == ComputeObjectivesAndConstraints

SpecScore == InitScore /\ [][NextScore]_vars

\* C27: for a fixed mae the third objective is strictly decreasing in sqnr
\* over the whole range from the sentinel -100 upward (sqnr # -1): of two
\* results, the one with the higher SQNR never gets the larger
\* performance-error objective.
C27_HigherSqnrNeverWorse ==
    (op_name = "_compute_objectives_and_constraints" /\ op_pc = "returned") =>
        (RLt(op_X[0].sqnr, op_X[1].sqnr) => RLt(op_Y[1][1][3], op_Y[0][1][3]))

(***************************************************************************)
(* PerformanceEvaluator.evaluate_design.  The simulation either failed     *)
(* (run_verilog_simulation returned None) or produced samples; a frame is  *)
(* FrameSize samples, compared with the golden output of its test vector.  *)
(* Samples are real and taken from -1, 0, 1.  op_X holds the simulation's  *)
(* outcome with the golden frames and op_Y the (SQNR, MAE) pair returned.  *)
(***************************************************************************)
\* The simulation wrote the samples of 0 .. MaxFrames complete frames.
MaxFrames == 2

\* The fft_size of the evaluated design.
FrameSize == 2

NegInf == <<-1, 0>>

GoldenFrames == {<<1, 1>>, <<1, -1>>, <<0, 0>>}
SimFrames == [1 .. FrameSize -> {-1, 0, 1}]

\* np.mean over the samples of a frame.
FrameMean(f(_)) == Rat(f(1) + f(2), FrameSize)

\* 10 * np.log10(ratio) to four decimals, for the ratios two frames of
\* these samples can have; np.log10(0) is -inf.
ten_log10(ratio) ==
    CASE ratio = Rat(0, 1) -> NegInf
      [] ratio = Rat(1, 1) -> Rat(0, 1)
      [] ratio = Rat(2, 1) -> Rat(30103, 10000)
      [] ratio = Rat(1, 2) -> Rat(-30103, 10000)
      [] ratio = Rat(2, 5) -> Rat(-39794, 10000)
      [] ratio = Rat(1, 4) -> Rat(-60206, 10000)

\* calculate_sqnr, lines 240-253
calculate_sqnr(golden, approximate) ==
    LET signal_power == FrameMean(LAMBDA i : golden[i] * golden[i])
        noise(i) == golden[i] - approximate[i]
        noise_power == FrameMean(LAMBDA i : noise(i) * noise(i))
    IN  IF noise_power = Rat(0, 1) THEN Inf
        ELSE ten_log10(RDiv(signal_power, noise_power))

\* calculate_mean_error, lines 255-258
calculate_mean_error(golden, approximate) ==
    FrameMean(LAMBDA i : Abs(golden[i] - approximate[i]))

\* evaluate_design, lines 260-301: sim is None after a failed simulation,
\* else the frames the loop of line 279 runs over, each with its golden
\* output.
evaluate_design(sim) ==
    IF sim.failed THEN SimSentinel
    ELSE LET valid(i) ==
                 IsFinite(calculate_sqnr(sim.frames[i].golden, sim.frames[i].approx))
             RECURSIVE total_sqnr(_), total_mae(_), valid_tests(_)
             total_sqnr(i) ==
                 IF i = 0 THEN Rat(0, 1)
                 ELSE IF valid(i)
                      THEN RAdd(total_sqnr(i - 1),
                                calculate_sqnr(sim.frames[i].golden, sim.frames[i].approx))
                      ELSE total_sqnr(i - 1)
             total_mae(i) ==
                 IF i = 0 THEN Rat(0, 1)
                 ELSE IF valid(i)
                      THEN RAdd(total_mae(i - 1),
                                calculate_mean_error(sim.frames[i].golden,
                                                     sim.frames[i].approx))
                      ELSE total_mae(i - 1)
             valid_tests(i) ==
                 IF i = 0 THEN 0
                 ELSE valid_tests(i - 1) + (IF valid(i) THEN 1 ELSE 0)
             n == Len(sim.frames)
         IN  IF valid_tests(n) = 0 THEN SimSentinel
             ELSE <<RDiv(total_sqnr(n), RInt(valid_tests(n))),
                    RDiv(total_mae(n), RInt(valid_tests(n)))>>

SimulationRuns ==
    {[failed |-> TRUE, frames |-> <<>>]}
        \cup UNION {[failed : {FALSE},
                     frames : [1 .. n -> [golden : GoldenFrames, approx : SimFrames]]] :
                    n \in 0 .. MaxFrames}

InitPerf ==
    /\ op_name = "evaluate_design"
    /\ op_fft_size = FrameSize
    /\ op_n = 0
    /\ op_X \in SimulationRuns
    /\ OpsStart
    /\ PipelineIdle /\ StructIdle /\ CodecIdle /\ TopIdle

\* self.perf_eval.evaluate_design(verilog_file, design_name)
EvaluateDesign ==
    /\ op_name = "evaluate_design"
    /\ op_pc = "ready"
    /\ op_Y' = evaluate_design(op_X)
    /\ op_pc' = "returned"
    /\ UNCHANGED <<op_name, op_fft_size, op_X, op_n, op_draws, op_rate, op_gen,
                   globals_CURRENT_GEN>>
    /\ UNCHANGED <<pipeVars, structVars, codecVars, topVars>>

NextPerf == EvaluateDesign

SpecPerf == InitPerf /\ [][NextPerf]_vars

\* Every evaluated frame equals its golden output.
ExactOutput(sim) ==
    /\ ~sim.failed
    /\ Len(sim.frames) > 0
    /\ \A i \in DOMAIN sim.frames : sim.frames[i].approx = sim.frames[i].golden

\* C28: evaluate_design returns the sentinel (-100, 1e6) only when the
\* simulation failed or wrote no complete frame; a design whose output
\* equals the golden output on every evaluated test vector is not scored
\* with the sentinel.
C28_SentinelOnlyOnFailure ==
    (op_name = "evaluate_design" /\ op_pc = "returned") =>
        /\ ExactOutput(op_X) => op_Y # SimSentinel
        /\ op_Y = SimSentinel =>
              \/ op_X.failed
              \/ Len(op_X.frames) = 0
              \/ \E i \in DOMAIN op_X.frames :
                   op_X.frames[i].approx # op_X.frames[i].golden

(***************************************************************************)
(* Stage generation: _generate_stage of FFTTemplateGeneratorPerButterfly   *)
(* and _generate_stage_with_unified_twiddle of FFTTemplateGenerator.  The  *)
(* emitted text is modelled by its butterfly instances: the stage indices  *)
(* wired to the ports A and B (read) and X and Y (driven), the twiddle     *)
(* index and the two precision parameters.  op_X holds the chromosome and  *)
(* the stage, op_Y the instances in the order emitted.                     *)
(***************************************************************************)
\* Stages are generated for the sizes 2 .. 2^MaxStageLog2.
MaxStageLog2 == 5

StageSizes == {Pow2(k) : k \in 1 .. MaxStageLog2}

StageGenerators == {"_generate_stage", "_generate_stage_with_unified_twiddle"}

\* A group size that does not grow with the stage.
group_size_of_first_stage(stage) == 2

\* group_size = 2 ** (stage + 1) (line 177)
group_size_of(stage) == Pow2(stage + 1)

\* The loops of _generate_stage (lines 181-212) and of
\* _generate_stage_with_unified_twiddle (lines 150-214): instance number
\* butterfly_idx + 1 of the sequence is the one emitted for butterfly_idx.
generate_stage(name, stage_config, size) ==
    LET stage == stage_config.stage_num
        group_size == group_size_of(stage)
        num_groups == size \div group_size
        butterflies_per_group == group_size \div 2
        instance(butterfly_idx) ==
            LET group == butterfly_idx \div butterflies_per_group
                bf == butterfly_idx % butterflies_per_group
                bf_config == stage_config.butterflies[butterfly_idx + 1]
                idx_a == group * group_size + bf
                idx_b == idx_a + butterflies_per_group
            IN  [MULT_PRECISION |-> bf_config.mult_precision,
                 ADD_PRECISION |-> bf_config.add_precision,
                 A |-> idx_a, B |-> idx_b, X |-> idx_a, Y |-> idx_b,
                 W |-> IF name = "_generate_stage"
                       THEN (bf * num_groups) % size
                       ELSE bf * num_groups]
    IN  [k \in 1 .. num_groups * butterflies_per_group |-> instance(k - 1)]

InitStage ==
    /\ op_name \in StageGenerators
    /\ op_fft_size \in StageSizes
    /\ op_n = 0
    /\ op_X \in [chromosome : OperatorGenomes(get_chromosome_length(op_fft_size)),
                 stage : 0 .. num_stages(op_fft_size) - 1]
    /\ OpsStart
    /\ PipelineIdle /\ StructIdle /\ CodecIdle /\ TopIdle

\* One iteration of the loop of generate_verilog over config['stages']:
\* self._generate_stage(stage, fft_size, stage_idx) for the decoded stage.
GenerateStage ==
    /\ op_name \in StageGenerators
    /\ op_pc = "ready"
    /\ LET config_of == chromosome_to_config(new_generator(op_fft_size), op_X.chromosome)
       IN  op_Y' = generate_stage(op_name, config_of.stages[op_X.stage + 1], op_fft_size)
    /\ op_pc' = "returned"
    /\ UNCHANGED <<op_name, op_fft_size, op_X, op_n, op_draws, op_rate, op_gen,
                   globals_CURRENT_GEN>>
    /\ UNCHANGED <<pipeVars, structVars, codecVars, topVars>>

NextStage == GenerateStage

SpecStage == InitStage /\ [][NextStage]_vars

\* C29: for every valid size and stage s the stage has exactly size/2
\* butterflies, the k-th carrying the precision pair of the stage's k-th
\* unit; each reads idx_a and idx_b = idx_a + 2^s and drives the same two
\* indices of the next stage; every index of 0 .. size-1 is read by
\* exactly one butterfly and driven by exactly one; every twiddle index
\* is in [0, size/2).
C29_StageButterfliesPartition ==
    (op_name \in StageGenerators /\ op_pc = "returned") =>
        LET size == op_fft_size
            s == op_X.stage
            Reads(d) == {k \in DOMAIN op_Y : op_Y[k].A = d \/ op_Y[k].B = d}
            Drives(d) == {k \in DOMAIN op_Y : op_Y[k].X = d \/ op_Y[k].Y = d}
        IN  /\ DOMAIN op_Y = 1 .. size \div 2
            /\ \A k \in DOMAIN op_Y :
                 LET u == s * (size \div 2) + (k - 1)
                 IN  /\ op_Y[k].MULT_PRECISION = op_X.chromosome[2 * u]
                     /\ op_Y[k].ADD_PRECISION = op_X.chromosome[2 * u + 1]
                     /\ op_Y[k].B = op_Y[k].A + Pow2(s)
                     /\ op_Y[k].W \in 0 .. (size \div 2) - 1
            /\ \A d \in 0 .. size - 1 :
                 Cardinality(Reads(d)) = 1 /\ Cardinality(Drives(d)) = 1
            /\ \A k \in DOMAIN op_Y :
                 {op_Y[k].A, op_Y[k].B, op_Y[k].X, op_Y[k].Y} \subseteq 0 .. size - 1

\* C29 witness: stage 1 of an 8-point design; its second butterfly reads
\* indices 1 and 3 with twiddle index 2 and its third reads 4 and 6.
C29_Witness ==
    /\ op_name = "_generate_stage" /\ op_pc = "returned"
    /\ op_fft_size = 8
    /\ op_X.stage = 1
    /\ Len(op_Y) = 4
    /\ op_Y[2].A = 1 /\ op_Y[2].B = 3 /\ op_Y[2].W = 2
    /\ op_Y[3].A = 4 /\ op_Y[3].B = 6 /\ op_Y[3].W = 0

(***************************************************************************)
(* The top-level controller emitted by                                     *)
(* CorrectedMixedPrecisionFFTGenerator._generate_top: a clocked state      *)
(* machine that takes MAX_N samples, starts the core, waits for it and     *)
(* streams the result out.  data_in_valid and fft_done are inputs of the   *)
(* controller, sampled at each rising clock edge.                          *)
(***************************************************************************)
MaxTopLog2 == 5

TopSizes == {Pow2(e) : e \in 1..MaxTopLog2}

\* __init__ computes addr_width = int(math.log2(fft_size)); _generate_top
\* writes both into the module header.
top_parameters(size) == [MAX_N |-> size, ADDR_WIDTH |-> FloorLog2(size)]

\* What a reg [width-1:0] keeps of an assigned value.
truncate(v, width) == v % (2 ^ width)

\* wire [2:0] num_stages = $clog2(MAX_N); the controller uses its bit 0.
num_stages_bit0(P) == (FloorLog2(P.MAX_N) % 8) % 2

\* The combinational always block.  input_count and output_count hold
\* ADDR_WIDTH bits; MAX_N is an integer parameter, so the comparisons are
\* made on the full values.
mem_next_state(P, r, data_in_valid, fft_done) ==
    CASE r.mem_state = MEM_IDLE ->
            IF data_in_valid = 1 THEN MEM_WRITE ELSE MEM_IDLE
      [] r.mem_state = MEM_WRITE ->
            IF r.input_count >= P.MAX_N THEN MEM_PROCESS ELSE MEM_WRITE
      [] r.mem_state = MEM_PROCESS ->
            IF fft_done = 1 THEN MEM_READ ELSE MEM_PROCESS
      [] r.mem_state = MEM_READ ->
            IF r.output_count >= P.MAX_N THEN MEM_IDLE ELSE MEM_READ

\* The else branch of the sequential block: every right-hand side reads the
\* registers as they were before the edge.
posedge_clk(P, r, data_in_valid, fft_done) ==
    LET aw == P.ADDR_WIDTH
        base == [r EXCEPT !.mem_state = mem_next_state(P, r, data_in_valid, fft_done),
                          !.fft_start = 0]
    IN  CASE r.mem_state = MEM_IDLE ->
                LET idle == [base EXCEPT !.fft_ready = 1, !.input_count = 0,
                                         !.output_count = 0, !.data_out_valid = 0,
                                         !.fft_start_issued = 0, !.ext_reading = 0]
                IN  IF data_in_valid = 1
                    THEN [idle EXCEPT !.wr_en = 1, !.wr_addr = 0,
                                      !.input_count = truncate(1, aw),
                                      !.fft_ready = 0]
                    ELSE [idle EXCEPT !.wr_en = 0]
          [] r.mem_state = MEM_WRITE ->
                IF r.input_count < P.MAX_N /\ data_in_valid = 1
                THEN [base EXCEPT !.wr_en = 1, !.wr_addr = r.input_count,
                                  !.input_count = truncate(r.input_count + 1, aw)]
                ELSE IF r.input_count >= P.MAX_N
                     THEN IF r.fft_start_issued = 0
                          THEN [base EXCEPT !.wr_en = 0, !.fft_start = 1,
                                            !.fft_start_issued = 1]
                          ELSE [base EXCEPT !.wr_en = 0]
                     ELSE [base EXCEPT !.wr_en = 0]
          [] r.mem_state = MEM_PROCESS ->
                IF fft_done = 1
                THEN [base EXCEPT !.wr_en = 0, !.output_count = 0,
                                  !.read_bank_sel = num_stages_bit0(P),
                                  !.ext_reading = 1]
                ELSE [base EXCEPT !.wr_en = 0, !.ext_reading = 0]
          [] r.mem_state = MEM_READ ->
                IF r.output_count = 0
                THEN [base EXCEPT !.ext_reading = 1, !.rd_addr = 0,
                                  !.data_out_valid = 0,
                                  !.output_count = truncate(r.output_count + 1, aw)]
                ELSE IF r.output_count <= P.MAX_N
                     THEN [base EXCEPT !.ext_reading = 1, !.data_out_valid = 1,
                                       !.rd_addr = truncate(r.rd_addr + 1, aw),
                                       !.output_count = truncate(r.output_count + 1, aw)]
                     ELSE [base EXCEPT !.data_out_valid = 0, !.ext_reading = 0]

\* History kept beside the registers: the samples presented with
\* data_in_valid high since the controller was last idle, counted up to
\* MAX_N without wrapping, and the clock cycles fft_start has been high.
record_history(P, r, h, after, data_in_valid) ==
    [presented |->
        IF r.mem_state = MEM_IDLE THEN data_in_valid
        ELSE IF r.mem_state = MEM_WRITE /\ h.presented + data_in_valid <= P.MAX_N
             THEN h.presented + data_in_valid
             ELSE h.presented,
     starts |->
        IF r.mem_state = MEM_IDLE THEN 0
        ELSE IF h.starts + after.fft_start <= 2 THEN h.starts + after.fft_start
             ELSE h.starts]

InitTop ==
    /\ \E size \in TopSizes : top_params = top_parameters(size)
    /\ top_regs = reset_registers
    /\ top_hist = no_history
    /\ PipelineIdle /\ StructIdle /\ CodecIdle /\ OpsIdle

\* A rising clock edge with rst high.
PosedgeClk ==
    /\ \E data_in_valid \in 0..1, fft_done \in 0..1 :
          LET after == posedge_clk(top_params, top_regs, data_in_valid, fft_done)
          IN  /\ top_regs' = after
              /\ top_hist' = record_history(top_params, top_regs, top_hist,
                                            after, data_in_valid)
    /\ UNCHANGED <<top_params, pipeVars, structVars, codecVars, opsVars>>

\* rst pulled low: the asynchronous reset branch.
NegedgeRst ==
    /\ top_regs' = reset_registers
    /\ top_hist' = no_history
    /\ UNCHANGED <<top_params, pipeVars, structVars, codecVars, opsVars>>

NextTop == PosedgeClk \/ NegedgeRst

SpecTop == InitTop /\ [][NextTop]_vars

\* The clock keeps running.
FairTop == SpecTop /\ WF_vars(PosedgeClk)

\* The state that follows s in the controller's cycle.
cycle_successor(s) == (s + 1) % 4

\* C30: once MAX_N samples have been presented with data_in_valid high the
\* controller eventually is in MEM_PROCESS having raised fft_start for
\* exactly one cycle, and between resets each step keeps the state or moves
\* it to the next one of the cycle MEM_IDLE, MEM_WRITE, MEM_PROCESS,
\* MEM_READ, MEM_IDLE.
C30_ControllerStartsCore ==
    /\ (top_hist.presented = top_params.MAX_N)
          ~> (top_regs.mem_state = MEM_PROCESS /\ top_hist.starts = 1)
    /\ [][\/ top_regs'.mem_state = top_regs.mem_state
          \/ top_regs'.mem_state = cycle_successor(top_regs.mem_state)
          \/ top_regs' = reset_registers]_vars

====
